---- MODULE Spec2Model ----
(***************************************************************************)
(* A model of the retrieval pipeline of the RAG chatbot: the in-memory     *)
(* vector store (src/lib/vector-store.ts), the retrieval policy            *)
(* (src/lib/rag-service.ts), the chat and upload route handlers and the    *)
(* provider client's retry loop (src/lib/openai-client.ts).                *)
(*                                                                         *)
(* Conventions.  A JavaScript string that the code inspects (a namespace)  *)
(* is a tuple of one-character strings, so that trim() is computed.  The   *)
(* value `undefined` is the tuple Undefined.  An embedding is a tuple of   *)
(* integers; a cosine similarity is kept exactly, as the pair (dot, nn)    *)
(* standing for dot / sqrt(nn), or as NaN.  A similarity threshold is      *)
(* counted in tenths (7 is 0.7).                                           *)
(***************************************************************************)
EXTENDS Integers, Sequences, FiniteSets, TLC

VARIABLES
    documents,        \* VectorStore.documents
    op,               \* the last direct call on the store and what it returned
    mockMode,         \* USE_MOCK_OPENAI / DEMO_MODE
    apiKey,           \* whether OPENAI_API_KEY is set
    qpc,              \* position of the chat request / RAGService.query call
    qArgs,            \* RAGQuery of the call in progress
    queryEmbedding,   \* RAGService.query: queryEmbedding
    relevantChunks,   \* RAGService.query: relevantChunks
    chatResponse,     \* what the call returned
    embedCalls,       \* createEmbedding calls issued by the call in progress
    genCalls,         \* createChatCompletion calls issued by the call in progress
    upc,              \* position of the upload request
    uReq,             \* the upload request (files, namespace, clearNamespace)
    fileIdx,          \* upload: index of the file being processed
    chunkIdx,         \* upload: i, index of the chunk being embedded
    stats,            \* upload: filesProcessed, totalChunks, successfulChunks, failedChunks
    errors,           \* upload: errors
    uResponse,        \* upload: the response
    rpc,              \* position of postWithRetry
    attempt,          \* postWithRetry: attempt
    delay,            \* postWithRetry: delay
    requests,         \* postWithRetry: statuses of the responses received, in order
    sleeps,           \* postWithRetry: the waits made, in ms, in order
    retryAfters,      \* postWithRetry: the retry-after value of the response before each wait
    cpc,              \* position of chunkText
    cArgs,            \* chunkText: text, chunkSize, overlap
    start,            \* chunkText: start
    cChunks,          \* chunkText: chunks
    windows,          \* chunkText: the slice bounds [from, to) of each chunk pushed
    fallbackFlag,     \* FALLBACK_TO_MOCK_ON_OPENAI_ERROR
    embeddingModel,   \* OPENAI_EMBEDDING_MODEL
    fpc,              \* position of a call of a pure function
    fCall,            \* the function called and its arguments
    fResult,          \* what it returned
    kpc,              \* position of a createEmbedding / createChatCompletion call
    kCall,            \* the method called and its argument
    kResult,          \* what the call returned or threw
    kRequests,        \* postWithRetry calls made by the client
    kLog,             \* the embeddings returned so far, each with its text
    uploads,          \* concurrent uploads: position and cursor of each
    snapshot,         \* the array a reader got from getAllDocuments
    thresholdsLeft,   \* query: the thresholds of the loop from the current one on
    storesSeen        \* the contents the store has had since the query was called

storeVars  == <<documents, op>>
queryVars  == <<qpc, qArgs, queryEmbedding, relevantChunks, chatResponse, embedCalls, genCalls>>
uploadVars == <<upc, uReq, fileIdx, chunkIdx, stats, errors, uResponse>>
retryVars  == <<rpc, attempt, delay, requests, sleeps, retryAfters>>
chunkVars  == <<cpc, cArgs, start, cChunks, windows>>
configVars == <<fallbackFlag, embeddingModel>>
pureVars   == <<fpc, fCall, fResult>>
clientVars == <<kpc, kCall, kResult, kRequests, kLog>>
concVars   == <<uploads, snapshot>>
stepVars   == <<thresholdsLeft, storesSeen>>
vars == <<documents, op, mockMode, apiKey, qpc, qArgs, queryEmbedding, relevantChunks,
          chatResponse, embedCalls, genCalls, upc, uReq, fileIdx, chunkIdx, stats,
          errors, uResponse, rpc, attempt, delay, requests, sleeps, retryAfters, cpc, cArgs, start,
          cChunks, windows, fallbackFlag, embeddingModel, fpc, fCall, fResult, kpc, kCall,
          kResult, kRequests, kLog, uploads, snapshot, thresholdsLeft, storesSeen>>

-----------------------------------------------------------------------------
(* Bounds of the model *)

\* the store holds at most this many chunks
MaxStore == 2
\* an upload request carries at most this many files
MaxFiles == 2
\* maxResults / k of a direct call ranges over 0..MaxK
MaxK == 2
\* a text given to chunkText has at most this many characters
MaxText == 6
\* a text over all characters given to normalizeExtractedText has at most this many
MaxShortText == 4
\* a text of letters, hyphens and line feeds given to it has at most this many
MaxWrapText == 7
\* the client is called at most this many times
MaxCalls == 3
\* the model keeps this many leading components of a mock embedding
MaxComponents == 2

-----------------------------------------------------------------------------
(* JavaScript values *)

Undefined == <<"undefined">>

WhiteSpace == {" ", "\t", "\n", "\r"}

\* if (s) ...: undefined and the empty string are falsy
Truthy(s) == s # Undefined /\ s # <<>>

RECURSIVE TrimStart(_)
TrimStart(s) ==
    IF s # <<>> /\ Head(s) \in WhiteSpace THEN TrimStart(Tail(s)) ELSE s

RECURSIVE TrimEnd(_)
TrimEnd(s) ==
    IF s # <<>> /\ s[Len(s)] \in WhiteSpace THEN TrimEnd(SubSeq(s, 1, Len(s) - 1)) ELSE s

\* String.prototype.trim
Trim(s) == TrimEnd(TrimStart(s))

Min(a, b) == IF a <= b THEN a ELSE b
Max(a, b) == IF a >= b THEN a ELSE b

\* Array.prototype.slice(0, end)
Slice0(s, end) ==
    LET e == IF end < 0 THEN Max(Len(s) + end, 0) ELSE Min(end, Len(s))
    IN  SubSeq(s, 1, e)

-----------------------------------------------------------------------------
(* Similarities *)

RECURSIVE Dot(_, _)
Dot(a, b) == IF a = <<>> THEN 0 ELSE Head(a) * Head(b) + Dot(Tail(a), Tail(b))

NaN == [nan |-> TRUE, dot |-> 0, nn |-> 1]
Num(d, n) == [nan |-> FALSE, dot |-> d, nn |-> n]

\* x * |x|
SSq(x) == IF x >= 0 THEN x * x ELSE -(x * x)

\* s1 < s2 for two numbers; a comparison with NaN is false
SimLT(s1, s2) ==
    /\ ~s1.nan /\ ~s2.nan
    /\ SSq(s1.dot) * s2.nn < SSq(s2.dot) * s1.nn

\* s >= t / 10; a comparison with NaN is false
SimGE(s, t) == ~s.nan /\ SSq(10 * s.dot) >= SSq(t) * s.nn

VectorStore_cosineSimilarity(a, b) ==
    IF Len(a) # Len(b) THEN Num(0, 1)
    ELSE IF Dot(a, a) * Dot(b, b) = 0 THEN NaN       \* 0 / 0
    ELSE Num(Dot(a, b), Dot(a, a) * Dot(b, b))

RAGService_cosineSimilarity(a, b) ==
    IF Len(a) # Len(b) THEN Num(0, 1)
    ELSE LET na == IF Dot(a, a) = 0 THEN 1 ELSE Dot(a, a)     \* Math.sqrt(na) || 1
             nb == IF Dot(b, b) = 0 THEN 1 ELSE Dot(b, b)
         IN  Num(Dot(a, b), na * nb)

\* Array.prototype.sort((a, b) => b.similarity - a.similarity) on numbers: the
\* indices of sims in the order of the sorted array (stable, descending)
RECURSIVE SortDescOrder(_)
SortDescOrder(sims) ==
    IF sims = <<>> THEN <<>>
    ELSE LET n    == Len(sims)
             rest == SortDescOrder(SubSeq(sims, 1, n - 1))
             keep == Cardinality({j \in 1..Len(rest) : ~SimLT(sims[rest[j]], sims[n])})
         IN  SubSeq(rest, 1, keep) \o <<n>> \o SubSeq(rest, keep + 1, Len(rest))

-----------------------------------------------------------------------------
(* The vector store *)

Chunk(id, embedding, source, title, section, namespace) ==
    [id |-> id, embedding |-> embedding,
     metadata |-> [source |-> source, title |-> title, section |-> section,
                   namespace |-> namespace]]

\* similaritySearch with the sort left out
VectorStore_similaritySearch_unsorted(docs, qe, k, threshold, namespace) ==
    LET InNs(d) == d.metadata.namespace = namespace
        pool == IF Truthy(namespace) THEN SelectSeq(docs, InNs) ELSE docs
        Passes(d) == SimGE(VectorStore_cosineSimilarity(qe, d.embedding), threshold)
    IN  Slice0(SelectSeq(pool, Passes), k)

VectorStore_similaritySearch(docs, qe, k, threshold, namespace) ==
    LET InNs(d) == d.metadata.namespace = namespace
        pool == IF Truthy(namespace) THEN SelectSeq(docs, InNs) ELSE docs
        similarities == [i \in 1..Len(pool) |->
                            [document |-> pool[i],
                             similarity |-> VectorStore_cosineSimilarity(qe, pool[i].embedding)]]
        Passes(item) == SimGE(item.similarity, threshold)
        filtered == SelectSeq(similarities, Passes)
        order == SortDescOrder([i \in 1..Len(filtered) |-> filtered[i].similarity])
        sorted == [i \in 1..Len(order) |-> filtered[order[i]]]
        top == Slice0(sorted, k)
    IN  [i \in 1..Len(top) |-> top[i].document]

\* clearNamespace with the trim left out
VectorStore_clearNamespace_untrimmed(docs, namespace) ==
    LET Other(d) == d.metadata.namespace # namespace
    IN  SelectSeq(docs, Other)

VectorStore_clearNamespace(docs, namespace) ==
    LET ns == Trim(namespace)
        Other(d) == d.metadata.namespace # ns
    IN  SelectSeq(docs, Other)

-----------------------------------------------------------------------------
(* The retrieval policy: RAGService.query after the question is embedded *)

\* Array.from(new Set(seq)): the first occurrence of each value, in order
RECURSIVE Dedupe(_)
Dedupe(seq) ==
    IF seq = <<>> THEN <<>>
    ELSE LET front == Dedupe(SubSeq(seq, 1, Len(seq) - 1))
             x     == seq[Len(seq)]
         IN  IF \E i \in DOMAIN front : front[i] = x THEN front ELSE Append(front, x)

\* the thresholds without the filter on the range
Thresholds_unfiltered(effectiveThreshold) ==
    Dedupe(<<effectiveThreshold, 3, 0>>)

\* [effectiveThreshold, 0.3, 0.0].filter((t) => t >= 0 && t <= 1), deduplicated
Thresholds(effectiveThreshold) ==
    LET InRange(t) == t >= 0 /\ t <= 10
    IN  Dedupe(SelectSeq(<<effectiveThreshold, 3, 0>>, InRange))

\* const effectiveThreshold = isMock ? 0.0 : similarityThreshold
EffectiveThreshold(isMock, similarityThreshold) ==
    IF isMock THEN 0 ELSE similarityThreshold

\* nsPool.slice(0, maxResults)
ForcedTopK(docs, maxResults, namespace) ==
    LET InNs(d) == d.metadata.namespace = namespace
        nsPool == IF Truthy(namespace) THEN SelectSeq(docs, InNs) ELSE docs
    IN  Slice0(nsPool, maxResults)

\* the threshold loop without the forced top-k step
RECURSIVE ThresholdBackoff_unforced(_, _, _, _, _)
ThresholdBackoff_unforced(docs, qe, maxResults, thresholds, namespace) ==
    LET t == Head(thresholds)
        found == VectorStore_similaritySearch(docs, qe, maxResults, t, namespace)
    IN  IF Len(found) > 0 \/ Len(thresholds) = 1 THEN found
        ELSE ThresholdBackoff_unforced(docs, qe, maxResults, Tail(thresholds), namespace)

\* for (const t of thresholds) { ... }
RECURSIVE ThresholdBackoff(_, _, _, _, _)
ThresholdBackoff(docs, qe, maxResults, thresholds, namespace) ==
    LET t == Head(thresholds)
        found == VectorStore_similaritySearch(docs, qe, maxResults, t, namespace)
    IN  IF Len(found) > 0 \/ Len(thresholds) = 1
        THEN IF Len(found) = 0 THEN ForcedTopK(docs, maxResults, namespace) ELSE found
        ELSE ThresholdBackoff(docs, qe, maxResults, Tail(thresholds), namespace)

\* the uploaded chunks ranked by similarity, cut to maxResults
UploadedTopK(uploadedDocs, qe, maxResults) ==
    LET sims   == [i \in 1..Len(uploadedDocs) |->
                      RAGService_cosineSimilarity(qe, uploadedDocs[i].embedding)]
        order  == SortDescOrder(sims)
        scored == [i \in 1..Len(order) |-> uploadedDocs[order[i]]]
    IN  Slice0(scored, maxResults)

\* the retrieval without the preference for uploaded chunks
RAGService_retrieve_mixed(docs, qe, maxResults, effectiveThreshold, namespace) ==
    ThresholdBackoff(docs, qe, maxResults, Thresholds(effectiveThreshold), namespace)

\* relevantChunks, from the store as it is when the embedding has arrived
RAGService_retrieve(docs, qe, maxResults, effectiveThreshold, namespace) ==
    LET IsUploaded(d) == d.metadata.source = "uploaded"
        uploadedDocs == SelectSeq(docs, IsUploaded)
    IN  IF Len(uploadedDocs) > 0
        THEN UploadedTopK(uploadedDocs, qe, maxResults)
        ELSE ThresholdBackoff(docs, qe, maxResults, Thresholds(effectiveThreshold), namespace)

Str_main == <<"m", "a", "i", "n">>

\* `${chunk.metadata.title}-${chunk.metadata.section || "main"}`
SourceKey(chunk) ==
    chunk.metadata.title \o <<"-">> \o
        (IF Truthy(chunk.metadata.section) THEN chunk.metadata.section ELSE Str_main)

RECURSIVE RAGService_extractSources(_)
RAGService_extractSources(chunks) ==
    IF chunks = <<>> THEN <<>>
    ELSE LET n     == Len(chunks)
             front == SubSeq(chunks, 1, n - 1)
             rest  == RAGService_extractSources(front)
         IN  IF \E i \in 1..(n - 1) : SourceKey(chunks[i]) = SourceKey(chunks[n])
             THEN rest
             ELSE Append(rest, [title   |-> chunks[n].metadata.title,
                                section |-> chunks[n].metadata.section])

-----------------------------------------------------------------------------
(* Inputs *)

Ns_a == <<"a">>
Ns_b == <<"b">>

\* embeddings the provider may return for a chunk: a unit vector, a vector off
\* the axis, and the zero vector
Embeddings == {<<1, 0>>, <<1, 2>>, <<0, 0>>}

\* embeddings of a question
QueryVectors == {<<1, 0>>, <<-2, 1>>}

\* similarity thresholds, in tenths
ThresholdInputs == {0, 3, 7}

\* namespaces handed to the store's methods
NamespaceInputs == {<<>>, <<" ">>, Ns_a, <<" ", "a", " ">>, Ns_b}

\* chunks handed to addDocument directly
StoreChunkInputs ==
    {Chunk(<<"doc", 0>>, e, "openai-docs", <<"d">>, Undefined, ns) :
        e \in Embeddings, ns \in {Undefined, Ns_a, Ns_b}}

-----------------------------------------------------------------------------
(* Idle values of the parts a specification does not use *)

NoOp == [name |-> "none", args |-> <<>>, result |-> <<>>]

QueryIdle ==
    /\ qpc = "idle"
    /\ qArgs = <<>>
    /\ queryEmbedding = <<>>
    /\ relevantChunks = <<>>
    /\ chatResponse = <<>>
    /\ embedCalls = 0
    /\ genCalls = 0

UploadIdle ==
    /\ upc = "idle"
    /\ uReq = <<>>
    /\ fileIdx = 0
    /\ chunkIdx = 0
    /\ stats = <<>>
    /\ errors = <<>>
    /\ uResponse = <<>>

RetryIdle ==
    /\ rpc = "idle"
    /\ attempt = 0
    /\ delay = 0
    /\ requests = <<>>
    /\ sleeps = <<>>
    /\ retryAfters = <<>>

ChunkIdle ==
    /\ cpc = "idle"
    /\ cArgs = <<>>
    /\ start = 0
    /\ cChunks = <<>>
    /\ windows = <<>>

\* OPENAI_EMBEDDING_MODEL || "text-embedding-3-small"
DefaultEmbeddingModel == "text-embedding-3-small"

\* the environment when neither variable is set
DefaultConfig ==
    /\ fallbackFlag = FALSE
    /\ embeddingModel = DefaultEmbeddingModel

PureIdle ==
    /\ fpc = "idle"
    /\ fCall = <<>>
    /\ fResult = <<>>

ClientIdle ==
    /\ kpc = "idle"
    /\ kCall = <<>>
    /\ kResult = <<>>
    /\ kRequests = 0
    /\ kLog = <<>>

ConcIdle ==
    /\ uploads = <<>>
    /\ snapshot = <<>>

StepIdle ==
    /\ thresholdsLeft = <<>>
    /\ storesSeen = {}

\* the parts added to the initial state of every specification that does not use them
RestIdle == DefaultConfig /\ PureIdle /\ ClientIdle /\ ConcIdle /\ StepIdle

-----------------------------------------------------------------------------
(* SpecStore: the methods of VectorStore, called directly *)

StoreOnly == UNCHANGED <<mockMode, apiKey, queryVars, uploadVars, retryVars, chunkVars,
                        configVars, pureVars, clientVars, concVars, stepVars>>

AddDocument(chunk) ==
    /\ Len(documents) < MaxStore
    /\ documents' = Append(documents, chunk)
    /\ op' = [name |-> "addDocument", args |-> <<>>, result |-> <<>>]
    /\ StoreOnly

SimilaritySearch(qe, k, threshold, namespace) ==
    /\ op' = [name |-> "similaritySearch", args |-> <<qe, k, threshold, namespace>>,
              result |-> VectorStore_similaritySearch(documents, qe, k, threshold, namespace)]
    /\ UNCHANGED documents
    /\ StoreOnly

Clear ==
    /\ documents' = <<>>
    /\ op' = [name |-> "clear", args |-> <<>>, result |-> <<>>]
    /\ StoreOnly

ClearNamespace(namespace) ==
    /\ documents' = VectorStore_clearNamespace(documents, namespace)
    /\ op' = [name |-> "clearNamespace", args |-> <<namespace>>, result |-> <<>>]
    /\ StoreOnly

GetDocumentCount ==
    /\ op' = [name |-> "getDocumentCount", args |-> <<>>, result |-> Len(documents)]
    /\ UNCHANGED documents
    /\ StoreOnly

InitStore ==
    /\ documents = <<>>
    /\ op = NoOp
    /\ mockMode = FALSE
    /\ apiKey = TRUE
    /\ QueryIdle /\ UploadIdle /\ RetryIdle /\ ChunkIdle /\ RestIdle

NextStore ==
    \/ \E chunk \in StoreChunkInputs : AddDocument(chunk)
    \/ \E qe \in QueryVectors, k \in 0..MaxK, t \in ThresholdInputs,
          ns \in {Undefined, <<>>, Ns_a, Ns_b} :
             SimilaritySearch(qe, k, t, ns)
    \/ Clear
    \/ \E ns \in NamespaceInputs : ClearNamespace(ns)
    \/ GetDocumentCount

SpecStore == InitStore /\ [][NextStore]_vars

-----------------------------------------------------------------------------
(* Spec: the chat route and RAGService.query, with other requests changing   *)
(* the store while the call waits for the provider.  The handler runs        *)
(* without interruption between two waits on the provider; the retrieval     *)
(* is taken on the store as it is in the step in which the embedding         *)
(* arrives.  SpecQuery has the waits inside the retrieval.                   *)

\* values of body.message
MsgUndefined == [type |-> "undefined", str |-> <<>>]
MsgNumber    == [type |-> "number", str |-> <<>>]
MsgString(s) == [type |-> "string", str |-> s]

\* !message || typeof message !== "string"
MessageRejected(message) ==
    \/ message.type = "undefined"
    \/ message.type = "string" /\ message.str = <<>>
    \/ message.type # "string"

Messages == {MsgUndefined, MsgNumber, MsgString(<<>>), MsgString(<<"h", "i">>),
             MsgString(<<" ">>)}

\* request bodies: JSON objects, and a body that request.json() or the
\* destructuring rejects
ChatBodies ==
    {[json |-> "object", message |-> m, namespace |-> ns] :
        m \in Messages, ns \in {Undefined, <<" ">>, <<" ", "a", " ">>, Ns_b}}
    \cup {[json |-> "invalid", message |-> MsgUndefined, namespace |-> Undefined]}

\* RAGQuery values of a direct call of ragService.query
DirectQueries ==
    {[maxResults |-> k, similarityThreshold |-> t, namespace |-> ns] :
        k \in 0..MaxK, t \in {3, 7, 12}, ns \in {Undefined, <<>>, Ns_a, Ns_b}}

\* chunks other requests insert: uploads ("uploaded", namespace trimmed and
\* non-empty, or none) and the ingestion pipeline ("openai-docs")
RequestChunks ==
    {Chunk(<<"f", 0>>, e, src, <<"f">>, Undefined, ns) :
        e \in {<<1, 0>>, <<1, 2>>}, src \in {"uploaded", "openai-docs"},
        ns \in {Undefined, Ns_a, Ns_b}}

ChatMaxResults == 5
ChatSimilarityThreshold == 7

Response(status, answer, chunks) ==
    [status |-> status, answer |-> answer,
     sources |-> RAGService_extractSources(chunks), retrievedChunks |-> Len(chunks)]

QueryFrame == UNCHANGED <<op, mockMode, apiKey, uploadVars, retryVars, chunkVars,
                         configVars, pureVars, clientVars, concVars, stepVars>>

\* the route's checks without the look at the store
ChatRoute_noStats(body, count) ==
    IF body.json = "invalid" THEN "500"
    ELSE IF MessageRejected(body.message) THEN "400"
    ELSE "query"

\* the route's checks with the look at the store made first
ChatRoute_statsFirst(body, count) ==
    IF body.json = "invalid" THEN "500"
    ELSE IF count = 0 THEN "empty"
    ELSE IF MessageRejected(body.message) THEN "400"
    ELSE "query"

\* the checks of POST /api/chat before the query, count being
\* stats.totalDocuments
ChatRoute(body, count) ==
    IF body.json = "invalid" THEN "500"
    ELSE IF MessageRejected(body.message) THEN "400"
    ELSE IF count = 0 THEN "empty"
    ELSE "query"

\* POST /api/chat up to its first wait on the provider
ChatPost(body) ==
    /\ qpc = "idle"
    /\ UNCHANGED <<documents, queryEmbedding, relevantChunks, genCalls>>
    /\ LET route == ChatRoute(body, Len(documents))
       IN  IF route = "query"
           THEN /\ qArgs' = [via |-> "chat", body |-> body,
                             maxResults |-> ChatMaxResults,
                             similarityThreshold |-> ChatSimilarityThreshold,
                             namespace |-> IF body.namespace # Undefined
                                              /\ Trim(body.namespace) # <<>>
                                           THEN Trim(body.namespace) ELSE Undefined]
                /\ chatResponse' = <<>>
                /\ embedCalls' = 1
                /\ qpc' = "embedding"
           ELSE /\ qArgs' = [via |-> "chat", body |-> body]
                /\ chatResponse' =
                      IF route = "500" THEN Response(500, "error", <<>>)
                      ELSE IF route = "400" THEN Response(400, "error", <<>>)
                      ELSE Response(200, "kb_empty", <<>>)
                /\ embedCalls' = 0
                /\ qpc' = "done"
    /\ QueryFrame

\* ragService.query(ragQuery) called directly, up to its wait for the embedding
QueryCall(ragQuery) ==
    /\ qpc = "idle"
    /\ qArgs' = [via |-> "direct", body |-> <<>>,
                 maxResults |-> ragQuery.maxResults,
                 similarityThreshold |-> ragQuery.similarityThreshold,
                 namespace |-> ragQuery.namespace]
    /\ embedCalls' = 1
    /\ qpc' = "embedding"
    /\ UNCHANGED <<documents, queryEmbedding, relevantChunks, chatResponse, genCalls>>
    /\ QueryFrame

\* createEmbedding returns: retrieval, then the canned answer or the
\* generation call
EmbeddingReturns(qe) ==
    /\ qpc = "embedding"
    /\ queryEmbedding' = qe
    /\ relevantChunks' = RAGService_retrieve(documents, qe, qArgs.maxResults,
                             EffectiveThreshold(mockMode, qArgs.similarityThreshold),
                             qArgs.namespace)
    /\ IF Len(relevantChunks') = 0
       THEN /\ chatResponse' = Response(200, "not_found", <<>>)
            /\ genCalls' = 0
            /\ qpc' = "done"
       ELSE /\ chatResponse' = <<>>
            /\ genCalls' = 1
            /\ qpc' = "generating"
    /\ UNCHANGED <<documents, qArgs, embedCalls>>
    /\ QueryFrame

\* createEmbedding throws (the provider failed): query rethrows, the route
\* answers 500
EmbeddingThrows ==
    /\ qpc = "embedding"
    /\ ~mockMode
    /\ chatResponse' = Response(500, "error", <<>>)
    /\ qpc' = "done"
    /\ UNCHANGED <<documents, qArgs, queryEmbedding, relevantChunks, embedCalls, genCalls>>
    /\ QueryFrame

\* createChatCompletion returns
GenerationReturns ==
    /\ qpc = "generating"
    /\ chatResponse' = Response(200, "generated", relevantChunks)
    /\ qpc' = "done"
    /\ UNCHANGED <<documents, qArgs, queryEmbedding, relevantChunks, embedCalls, genCalls>>
    /\ QueryFrame

\* createChatCompletion throws
GenerationThrows ==
    /\ qpc = "generating"
    /\ ~mockMode
    /\ chatResponse' = Response(500, "error", <<>>)
    /\ qpc' = "done"
    /\ UNCHANGED <<documents, qArgs, queryEmbedding, relevantChunks, embedCalls, genCalls>>
    /\ QueryFrame

\* the response is sent; the next request may come
QueryDone ==
    /\ qpc = "done"
    /\ qpc' = "idle"
    /\ qArgs' = <<>>
    /\ queryEmbedding' = <<>>
    /\ relevantChunks' = <<>>
    /\ chatResponse' = <<>>
    /\ embedCalls' = 0
    /\ genCalls' = 0
    /\ UNCHANGED documents
    /\ QueryFrame

\* another request inserts a chunk (vectorStore.addDocument)
OtherRequestAdds(chunk) ==
    /\ qpc \in {"idle", "embedding"}
    /\ Len(documents) < MaxStore
    /\ documents' = Append(documents, chunk)
    /\ UNCHANGED queryVars
    /\ QueryFrame

\* another request clears the store (vectorStore.clear)
OtherRequestClears ==
    /\ qpc \in {"idle", "embedding"}
    /\ documents' = <<>>
    /\ UNCHANGED queryVars
    /\ QueryFrame

\* another request clears a namespace (vectorStore.clearNamespace)
OtherRequestClearsNamespace(namespace) ==
    /\ qpc \in {"idle", "embedding"}
    /\ documents' = VectorStore_clearNamespace(documents, namespace)
    /\ UNCHANGED queryVars
    /\ QueryFrame

Init ==
    /\ documents = <<>>
    /\ op = NoOp
    /\ mockMode \in BOOLEAN
    /\ apiKey = TRUE
    /\ QueryIdle /\ UploadIdle /\ RetryIdle /\ ChunkIdle /\ RestIdle

Next ==
    \/ \E body \in ChatBodies : ChatPost(body)
    \/ \E ragQuery \in DirectQueries : QueryCall(ragQuery)
    \/ \E qe \in QueryVectors : EmbeddingReturns(qe)
    \/ EmbeddingThrows
    \/ GenerationReturns
    \/ GenerationThrows
    \/ QueryDone
    \/ \E chunk \in RequestChunks : OtherRequestAdds(chunk)
    \/ OtherRequestClears
    \/ \E ns \in {Ns_a, Ns_b} : OtherRequestClearsNamespace(ns)

Spec == Init /\ [][Next]_vars

-----------------------------------------------------------------------------
(* SpecRetry: OpenAIClient.postWithRetry in live mode *)

MaxRetries == 5
InitialDelay == 500
MaxDelay == 8000
JitterBound == 200

\* statuses the provider answers with
Statuses == {200, 404, 429, 500}

Str_2 == <<"2">>
Str_x == <<"x">>

\* values of response.headers.get("retry-after"): none, and strings
RetryAfterInputs == {Undefined, <<>>, Str_2, Str_x}

\* values of Math.floor(Math.random() * 200): the least and the greatest
JitterInputs == {0, JitterBound - 1}

DigitValue(c) ==
    CASE c = "0" -> 0 [] c = "1" -> 1 [] c = "2" -> 2 [] c = "3" -> 3 [] c = "4" -> 4
      [] c = "5" -> 5 [] c = "6" -> 6 [] c = "7" -> 7 [] c = "8" -> 8 [] c = "9" -> 9

Digits == {"0", "1", "2", "3", "4", "5", "6", "7", "8", "9"}

RECURSIVE DecimalValue(_)
DecimalValue(s) ==
    IF s = <<>> THEN 0
    ELSE 10 * DecimalValue(SubSeq(s, 1, Len(s) - 1)) + DigitValue(s[Len(s)])

\* isNaN(Number(s)) for a non-empty string s of the inputs: digits make a number
IsNaNNumber(s) == \E i \in DOMAIN s : s[i] \notin Digits

\* (isNaN(seconds) ? 1 : seconds) * 1000
RetryAfterMs(retryAfter) ==
    (IF IsNaNNumber(retryAfter) THEN 1 ELSE DecimalValue(retryAfter)) * 1000

\* response.ok
ResponseOk(status) == status >= 200 /\ status <= 299

\* a retry on every failure status
Retryable_anyFailure(status) == status >= 400

\* status === 429 || status >= 500
Retryable(status) == status = 429 \/ status >= 500

\* the ceiling reached one attempt early
RetriesExhausted_early(n, maxRetries) == n >= maxRetries

\* attempt > maxRetries
RetriesExhausted(n, maxRetries) == n > maxRetries

RetryFrame == UNCHANGED <<documents, op, mockMode, apiKey, queryVars, uploadVars, chunkVars,
                         configVars, pureVars, clientVars, concVars, stepVars>>

\* postWithRetry is called: the first request is issued
PostWithRetry ==
    /\ rpc = "idle"
    /\ attempt' = 0
    /\ delay' = InitialDelay
    /\ requests' = <<>>
    /\ sleeps' = <<>>
    /\ retryAfters' = <<>>
    /\ rpc' = "fetching"
    /\ RetryFrame

\* the provider answers the request in flight
ProviderResponds(status, retryAfter, jitter) ==
    /\ rpc = "fetching"
    /\ requests' = Append(requests, status)
    /\ IF ResponseOk(status)
       THEN /\ rpc' = "returned"
            /\ UNCHANGED <<attempt, delay, sleeps, retryAfters>>
       ELSE IF Retryable(status)
       THEN /\ attempt' = attempt + 1
            /\ IF RetriesExhausted(attempt', MaxRetries)
               THEN /\ rpc' = "threw"
                    /\ UNCHANGED <<delay, sleeps, retryAfters>>
               ELSE /\ rpc' = "sleeping"
                    /\ retryAfters' = Append(retryAfters, retryAfter)
                    /\ IF Truthy(retryAfter)
                       THEN /\ sleeps' = Append(sleeps, RetryAfterMs(retryAfter))
                            /\ UNCHANGED delay
                       ELSE /\ sleeps' = Append(sleeps, delay + jitter)
                            /\ delay' = Min(delay * 2, MaxDelay)
       ELSE /\ rpc' = "threw"
            /\ UNCHANGED <<attempt, delay, sleeps, retryAfters>>
    /\ RetryFrame

\* the sleep ends: the next request is issued
SleepEnds ==
    /\ rpc = "sleeping"
    /\ rpc' = "fetching"
    /\ UNCHANGED <<attempt, delay, requests, sleeps, retryAfters>>
    /\ RetryFrame

\* the call has returned or thrown; the client is free for the next call
CallEnds ==
    /\ rpc \in {"returned", "threw"}
    /\ rpc' = "idle"
    /\ attempt' = 0
    /\ delay' = 0
    /\ requests' = <<>>
    /\ sleeps' = <<>>
    /\ retryAfters' = <<>>
    /\ RetryFrame

InitRetry ==
    /\ documents = <<>>
    /\ op = NoOp
    /\ mockMode = FALSE
    /\ apiKey = TRUE
    /\ QueryIdle /\ UploadIdle /\ RetryIdle /\ ChunkIdle /\ RestIdle

NextRetry ==
    \/ PostWithRetry
    \/ \E status \in Statuses, retryAfter \in RetryAfterInputs, jitter \in JitterInputs :
          ProviderResponds(status, retryAfter, jitter)
    \/ SleepEnds
    \/ CallEnds

SpecRetry == InitRetry /\ [][NextRetry]_vars

\* requests issued by the call so far
Issued == Len(requests) + (IF rpc = "fetching" THEN 1 ELSE 0)

\* a rate limit or a server error
Transient(status) == status = 429 \/ (status >= 500 /\ status <= 599)

\* C8: when every response is a 429 or a 5xx the call makes at most 5 retries
\* (6 requests, 5 waits) and then fails, and it fails on such a response only
\* when the 5 retries are used up; a success response ends the call at once
\* with that result: it is the last request.
C8_RetryCeiling ==
    /\ Issued <= MaxRetries + 1
    /\ Len(sleeps) <= MaxRetries
    /\ (Len(requests) = MaxRetries + 1 /\ \A i \in DOMAIN requests : Transient(requests[i]))
          => rpc = "threw"
    /\ (rpc = "threw" /\ Transient(requests[Len(requests)]))
          => Len(requests) = MaxRetries + 1 /\ Len(sleeps) = MaxRetries
    /\ \A i \in DOMAIN requests :
          (requests[i] >= 200 /\ requests[i] <= 299)
             => i = Len(requests) /\ rpc = "returned"
    /\ rpc = "returned" => requests[Len(requests)] = 200

\* C8 witness: six responses, all 429 or 5xx, and the call has failed
C8_Witness ==
    /\ rpc = "threw"
    /\ Len(requests) = MaxRetries + 1
    /\ \A i \in DOMAIN requests : Transient(requests[i])
    /\ Len(sleeps) = MaxRetries

\* C9: a failure status other than 429 and 5xx ends the call at once with an
\* error: it is the last response, no wait and no request follows it, however
\* many retries were left.
C9_NoRetryOnOther4xx ==
    \A i \in DOMAIN requests :
        (~(requests[i] >= 200 /\ requests[i] <= 299) /\ ~Transient(requests[i])) =>
            /\ i = Len(requests)
            /\ rpc = "threw"
            /\ Len(sleeps) = i - 1
            /\ Issued = i

\* C9 witness: a 404 after one retried 429, with four retries left
C9_Witness ==
    /\ requests = <<429, 404>>
    /\ rpc = "threw"
    /\ attempt = 1
    /\ Len(sleeps) = 1

\* the wait the schedule gives before the n-th retry, without the jitter
Backoff(n) == Min(InitialDelay * 2 ^ (n - 1), MaxDelay)

\* C24: the wait before the n-th retry of a call is min(500 * 2^(n-1), 8000)
\* ms plus a jitter in [0, 200), unless the response carries a Retry-After
\* value, and then it is that number of seconds (1 when it is not a number);
\* this holds whatever responses came before, and no wait is negative.
C24_WaitSchedule ==
    \A n \in DOMAIN sleeps :
        /\ sleeps[n] >= 0
        /\ IF Truthy(retryAfters[n])
           THEN sleeps[n] = 1000 * (IF IsNaNNumber(retryAfters[n]) THEN 1
                                    ELSE DecimalValue(retryAfters[n]))
           ELSE sleeps[n] - Backoff(n) \in 0..(JitterBound - 1)

-----------------------------------------------------------------------------
(* SpecChunk: DocumentProcessor.chunkText, one loop iteration per step.    *)
(* Positions in a text are counted from 0, as in the code.                 *)

\* String.prototype.slice(from, to), 0 <= from <= to <= length
Slice(text, from, to) == SubSeq(text, from + 1, to)

\* String.prototype.lastIndexOf(c) for a one-character c: -1 when absent
LastIndexOf(s, c) ==
    LET at == {i \in 0..(Len(s) - 1) : s[i + 1] = c}
    IN  IF at = {} THEN -1 ELSE CHOOSE i \in at : \A j \in at : j <= i

Max3(a, b, c) == Max(a, Max(b, c))

\* the cursor after a push: Math.max(0, sliceEnd - overlap)
NextStart(sliceEnd, overlap) == Max(0, sliceEnd - overlap)

\* one iteration of the while loop at cursor st: the slice pushed, its bounds,
\* whether the loop breaks, and the cursor the loop goes on with otherwise
ChunkIteration(text, chunkSize, overlap, st) ==
    LET end           == Min(st + chunkSize, Len(text))
        chunk         == Slice(text, st, end)
        breakPointRel == Max3(LastIndexOf(chunk, "."), LastIndexOf(chunk, "\n"),
                              LastIndexOf(chunk, " "))
        sliceEnd      == IF end < Len(text) /\ 2 * breakPointRel > Len(chunk)
                         THEN st + breakPointRel + 1
                         ELSE end
    IN  [pushed |-> Trim(Slice(text, st, sliceEnd)),
         window |-> <<st, sliceEnd>>,
         break  |-> ~(end < Len(text)),
         next   |-> NextStart(sliceEnd, overlap)]

\* chunks.filter((chunk) => chunk.length > 0)
RECURSIVE NonEmptyOnly(_)
NonEmptyOnly(cs) ==
    IF cs = <<>> THEN <<>>
    ELSE IF Head(cs) = <<>> THEN NonEmptyOnly(Tail(cs))
    ELSE <<Head(cs)>> \o NonEmptyOnly(Tail(cs))

\* the windows of the chunks the filter keeps
RECURSIVE WindowsKept(_, _)
WindowsKept(cs, ws) ==
    IF cs = <<>> THEN <<>>
    ELSE IF Head(cs) = <<>> THEN WindowsKept(Tail(cs), Tail(ws))
    ELSE <<Head(ws)>> \o WindowsKept(Tail(cs), Tail(ws))

\* chunkText as a function, for the arguments on which the loop ends
RECURSIVE ChunkTextFrom(_, _, _, _, _)
ChunkTextFrom(text, chunkSize, overlap, st, acc) ==
    IF ~(st < Len(text)) THEN NonEmptyOnly(acc)
    ELSE LET it == ChunkIteration(text, chunkSize, overlap, st)
         IN  IF it.break THEN NonEmptyOnly(Append(acc, it.pushed))
             ELSE ChunkTextFrom(text, chunkSize, overlap, it.next, Append(acc, it.pushed))

DocumentProcessor_chunkText(text, chunkSize, overlap) ==
    ChunkTextFrom(text, chunkSize, overlap, 0, <<>>)

\* the characters of the texts: a letter, a blank and a full stop
TextChars == {"a", " ", "."}

RECURSIVE TextsUpTo(_)
TextsUpTo(n) ==
    IF n = 0 THEN {<<>>}
    ELSE LET shorter == TextsUpTo(n - 1)
         IN  shorter \cup {Append(t, c) : t \in shorter, c \in TextChars}

ChunkTexts == TextsUpTo(MaxText)
ChunkSizes == 1..5
Overlaps == 0..5

\* the arguments of a call
ChunkArgs ==
    {[text |-> text, chunkSize |-> chunkSize, overlap |-> overlap] :
        text \in ChunkTexts, chunkSize \in ChunkSizes, overlap \in Overlaps}

ChunkFrame == UNCHANGED <<documents, op, mockMode, apiKey, queryVars, uploadVars, retryVars,
                          configVars, pureVars, clientVars, concVars, stepVars>>

\* one iteration of while (start < text.length).  An iteration is a function
\* of the cursor, which ranges over 0..length-1: a run that has pushed more
\* chunks than that has been at one cursor twice and so never ends.  Such a
\* run is followed no further.
ChunkLoop ==
    /\ cpc = "loop"
    /\ start < Len(cArgs.text)
    /\ Len(cChunks) <= Len(cArgs.text)
    /\ LET it == ChunkIteration(cArgs.text, cArgs.chunkSize, cArgs.overlap, start)
       IN  /\ cChunks' = Append(cChunks, it.pushed)
           /\ windows' = Append(windows, it.window)
           /\ IF it.break
              THEN cpc' = "exit" /\ start' = start
              ELSE cpc' = "loop" /\ start' = it.next
    /\ UNCHANGED cArgs
    /\ ChunkFrame

\* the loop has ended: return chunks.filter(...)
ChunkTextReturns ==
    /\ \/ cpc = "exit"
       \/ cpc = "loop" /\ ~(start < Len(cArgs.text))
    /\ cChunks' = NonEmptyOnly(cChunks)
    /\ windows' = WindowsKept(cChunks, windows)
    /\ cpc' = "returned"
    /\ UNCHANGED <<cArgs, start>>
    /\ ChunkFrame

\* the call chunkText(text, chunkSize, overlap) has been entered
InitChunk ==
    /\ documents = <<>>
    /\ op = NoOp
    /\ mockMode = FALSE
    /\ apiKey = TRUE
    /\ QueryIdle /\ UploadIdle /\ RetryIdle /\ RestIdle
    /\ cpc = "loop"
    /\ cArgs \in ChunkArgs
    /\ start = 0
    /\ cChunks = <<>>
    /\ windows = <<>>

NextChunkText ==
    \/ ChunkLoop
    \/ ChunkTextReturns

SpecChunk == InitChunk /\ [][NextChunkText]_vars

-----------------------------------------------------------------------------
(* SpecNormalize: normalizeExtractedText, applied to a text and then to    *)
(* its own result.  A text is a tuple of characters; the characters that   *)
(* have no printable form are written by name.                             *)

NBSP == "nbsp"          \* U+00A0
SHY == "shy"            \* U+00AD
LIG_ff == "ff"          \* U+FB00

\* [A-Za-z]
Letters == {"a", "f"}
\* \s, among the characters of the model
RegexSpace == {" ", "\t", "\n", "\r", NBSP}

\* t.replace(/\r\n?/g, "\n")
RECURSIVE NormalizeLineEndings(_)
NormalizeLineEndings(t) ==
    IF t = <<>> THEN <<>>
    ELSE IF Head(t) = "\r"
    THEN IF Len(t) >= 2 /\ t[2] = "\n"
         THEN <<"\n">> \o NormalizeLineEndings(SubSeq(t, 3, Len(t)))
         ELSE <<"\n">> \o NormalizeLineEndings(Tail(t))
    ELSE <<Head(t)>> \o NormalizeLineEndings(Tail(t))

\* the three replacements of single characters: NBSP by a space, the soft
\* hyphen by nothing, a ligature by its letters
RECURSIVE ReplaceCharacters(_)
ReplaceCharacters(t) ==
    IF t = <<>> THEN <<>>
    ELSE (CASE Head(t) = NBSP   -> <<" ">>
            [] Head(t) = SHY    -> <<>>
            [] Head(t) = LIG_ff -> <<"f", "f">>
            [] OTHER            -> <<Head(t)>>) \o ReplaceCharacters(Tail(t))

\* the length of the run of \s characters that t begins with
RECURSIVE SpaceRun(_)
SpaceRun(t) ==
    IF t # <<>> /\ Head(t) \in RegexSpace THEN 1 + SpaceRun(Tail(t)) ELSE 0

\* the length of the match of /([A-Za-z])-(?:\s*\n)\s*([A-Za-z])/ at the head
\* of t, 0 when there is none
WrapMatch(t) ==
    IF Len(t) >= 4 /\ t[1] \in Letters /\ t[2] = "-"
    THEN LET k == SpaceRun(SubSeq(t, 3, Len(t)))
         IN  IF /\ \E i \in 3..(2 + k) : t[i] = "\n"
                /\ 3 + k <= Len(t)
                /\ t[3 + k] \in Letters
             THEN 3 + k
             ELSE 0
    ELSE 0

\* t.replace(/([A-Za-z])-(?:\s*\n)\s*([A-Za-z])/g, "$1$2"): the matches are
\* taken from left to right and do not overlap
RECURSIVE Dehyphenate(_)
Dehyphenate(t) ==
    IF t = <<>> THEN <<>>
    ELSE LET m == WrapMatch(t)
         IN  IF m > 0
             THEN <<t[1], t[m]>> \o Dehyphenate(SubSeq(t, m + 1, Len(t)))
             ELSE <<Head(t)>> \o Dehyphenate(Tail(t))

\* t.replace(/[ \t]+/g, " ")
RECURSIVE CollapseSpaces(_)
CollapseSpaces(t) ==
    IF t = <<>> THEN <<>>
    ELSE IF Head(t) \in {" ", "\t"}
    THEN IF Len(t) >= 2 /\ t[2] \in {" ", "\t"}
         THEN CollapseSpaces(Tail(t))
         ELSE <<" ">> \o CollapseSpaces(Tail(t))
    ELSE <<Head(t)>> \o CollapseSpaces(Tail(t))

\* t.replace(/\n{3,}/g, "\n\n")
RECURSIVE CollapseBlankLines(_)
CollapseBlankLines(t) ==
    IF t = <<>> THEN <<>>
    ELSE IF Len(t) >= 3 /\ t[1] = "\n" /\ t[2] = "\n" /\ t[3] = "\n"
    THEN CollapseBlankLines(Tail(t))
    ELSE <<Head(t)>> \o CollapseBlankLines(Tail(t))

normalizeExtractedText(text) ==
    IF ~Truthy(text) THEN <<>>
    ELSE Trim(CollapseBlankLines(CollapseSpaces(Dehyphenate(
             ReplaceCharacters(NormalizeLineEndings(text))))))

RECURSIVE TextsOver(_, _)
TextsOver(chars, n) ==
    IF n = 0 THEN {<<>>}
    ELSE LET shorter == TextsOver(chars, n - 1)
         IN  shorter \cup {Append(t, c) : t \in shorter, c \in chars}

NormalizeChars == {"a", "-", "\n", " ", "\t", "\r", NBSP, SHY, LIG_ff}
WrapChars == {"a", "-", "\n"}
NormalizeTexts == TextsOver(NormalizeChars, MaxShortText) \cup TextsOver(WrapChars, MaxWrapText)

PureFrame == UNCHANGED <<documents, op, mockMode, apiKey, queryVars, uploadVars, retryVars,
                         chunkVars, configVars, clientVars, concVars, stepVars>>

\* normalizeExtractedText(text) returns
NormalizeReturns ==
    /\ fpc = "called"
    /\ fCall.name = "normalizeExtractedText"
    /\ fResult' = <<normalizeExtractedText(fCall.text)>>
    /\ fpc' = "returned"
    /\ UNCHANGED fCall
    /\ PureFrame

\* the result is given to normalizeExtractedText again
NormalizeAgain ==
    /\ fpc = "returned"
    /\ fCall.name = "normalizeExtractedText"
    /\ fResult' = Append(fResult, normalizeExtractedText(fResult[1]))
    /\ fpc' = "again"
    /\ UNCHANGED fCall
    /\ PureFrame

\* normalizeExtractedText(text) has been called
InitNormalize ==
    /\ documents = <<>>
    /\ op = NoOp
    /\ mockMode = FALSE
    /\ apiKey = TRUE
    /\ QueryIdle /\ UploadIdle /\ RetryIdle /\ ChunkIdle
    /\ DefaultConfig /\ ClientIdle /\ ConcIdle /\ StepIdle
    /\ fpc = "called"
    /\ fCall \in {[name |-> "normalizeExtractedText", text |-> t] : t \in NormalizeTexts}
    /\ fResult = <<>>

NextNormalize ==
    \/ NormalizeReturns
    \/ NormalizeAgain

SpecNormalize == InitNormalize /\ [][NextNormalize]_vars

\* C14: normalizeExtractedText is total and idempotent: applied to its own
\* result it returns that result, for every text, the empty one and texts with
\* several hyphenated line wraps in a row included.
C14_Idempotent ==
    fpc = "again" => fResult[2] = fResult[1]

-----------------------------------------------------------------------------
(* SpecSections: DocumentProcessor.extractSections *)

\* content.split("\n")
RECURSIVE SplitLines(_)
SplitLines(content) ==
    IF \A i \in DOMAIN content : content[i] # "\n" THEN <<content>>
    ELSE LET at == CHOOSE i \in DOMAIN content :
                       content[i] = "\n" /\ \A j \in 1..(i - 1) : content[j] # "\n"
         IN  <<SubSeq(content, 1, at - 1)>>
                 \o SplitLines(SubSeq(content, at + 1, Len(content)))

\* the number of leading characters of s that are in set
LeadingRun(s, set) ==
    IF \A i \in DOMAIN s : s[i] \in set THEN Len(s)
    ELSE (CHOOSE i \in DOMAIN s : s[i] \notin set /\ \A j \in 1..(i - 1) : s[j] \in set) - 1

\* the characters "." does not match
LineTerminators == {"\n", "\r"}

\* line.match(/^(#{1,6})\s+(.+)$/): whether it matches, and the two groups.
\* The blanks are matched greedily and give one character back to the second
\* group when nothing follows them
HeaderMatch(line) ==
    LET hashes == LeadingRun(line, {"#"})
        rest   == SubSeq(line, hashes + 1, Len(line))
        blanks == LeadingRun(rest, RegexSpace)
        taken  == IF Len(rest) > blanks \/ blanks = 0 THEN blanks ELSE blanks - 1
        group2 == SubSeq(rest, taken + 1, Len(rest))
    IN  [matched |-> /\ hashes \in 1..6
                     /\ taken >= 1
                     /\ group2 # <<>>
                     /\ \A i \in DOMAIN group2 : group2[i] \notin LineTerminators,
         level   |-> hashes,
         text    |-> group2]

NoSection == [title |-> Undefined, content |-> <<>>, level |-> 0]

\* the for loop over the lines, the push of the final section, and the map
\* that trims the contents
RECURSIVE ExtractFrom(_, _, _)
ExtractFrom(lines, sections, currentSection) ==
    IF lines = <<>>
    THEN LET all == IF currentSection # NoSection THEN Append(sections, currentSection)
                    ELSE sections
         IN  [i \in DOMAIN all |-> [all[i] EXCEPT !.content = Trim(@)]]
    ELSE LET line == Head(lines)
             headerMatch == HeaderMatch(line)
         IN  IF headerMatch.matched
             THEN ExtractFrom(Tail(lines),
                      IF currentSection # NoSection THEN Append(sections, currentSection)
                      ELSE sections,
                      [title |-> Trim(headerMatch.text), content |-> <<>>,
                       level |-> headerMatch.level])
             ELSE IF currentSection # NoSection
             THEN ExtractFrom(Tail(lines), sections,
                      [currentSection EXCEPT !.content = @ \o line \o <<"\n">>])
             ELSE ExtractFrom(Tail(lines), sections, currentSection)

DocumentProcessor_extractSections(content) ==
    ExtractFrom(SplitLines(content), <<>>, NoSection)

\* the characters of the contents: the marker, a blank, a letter, the two
\* line ends
SectionChars == {"#", " ", "a", "\n", "\r"}
SectionTexts == TextsOver(SectionChars, MaxShortText)

\* extractSections(content) returns
ExtractSectionsReturns ==
    /\ fpc = "called"
    /\ fCall.name = "extractSections"
    /\ fResult' = <<DocumentProcessor_extractSections(fCall.text)>>
    /\ fpc' = "returned"
    /\ UNCHANGED fCall
    /\ PureFrame

\* the caller has the sections
ExtractSectionsEnds ==
    /\ fpc = "returned"
    /\ fCall.name = "extractSections"
    /\ fpc' = "used"
    /\ UNCHANGED <<fCall, fResult>>
    /\ PureFrame

\* extractSections(content) has been called
InitSections ==
    /\ documents = <<>>
    /\ op = NoOp
    /\ mockMode = FALSE
    /\ apiKey = TRUE
    /\ QueryIdle /\ UploadIdle /\ RetryIdle /\ ChunkIdle
    /\ DefaultConfig /\ ClientIdle /\ ConcIdle /\ StepIdle
    /\ fpc = "called"
    /\ fCall \in {[name |-> "extractSections", text |-> t] : t \in SectionTexts}
    /\ fResult = <<>>

NextSections ==
    \/ ExtractSectionsReturns
    \/ ExtractSectionsEnds

SpecSections == InitSections /\ [][NextSections]_vars

\* a heading line: 1 to 6 markers, white space, then text; its level
HeadingLevel(line) ==
    LET hashes == LeadingRun(line, {"#"})
    IN  IF /\ hashes \in 1..6
           /\ Len(line) >= hashes + 2
           /\ line[hashes + 1] \in RegexSpace
        THEN hashes ELSE 0

\* the lines from..to joined with newlines
RECURSIVE JoinLines(_, _, _)
JoinLines(lines, from, to) ==
    IF from > to THEN <<>>
    ELSE IF from = to THEN lines[from]
    ELSE lines[from] \o <<"\n">> \o JoinLines(lines, from + 1, to)

\* one section per heading line, with the lines up to the next heading
SectionsOf(content) ==
    LET lines == SplitLines(content)
        heads == {i \in DOMAIN lines : HeadingLevel(lines[i]) > 0}
        Nth(n) == CHOOSE i \in heads : Cardinality({j \in heads : j < i}) = n - 1
        End(i) == IF \E j \in heads : j > i
                  THEN (CHOOSE j \in heads : j > i /\ \A k \in heads : k > i => j <= k) - 1
                  ELSE Len(lines)
    IN  [n \in 1..Cardinality(heads) |->
            LET i == Nth(n)
            IN  [title   |-> Trim(SubSeq(lines[i], HeadingLevel(lines[i]) + 1, Len(lines[i]))),
                 content |-> Trim(JoinLines(lines, i + 1, End(i))),
                 level   |-> HeadingLevel(lines[i])]]

\* C27: extractSections returns, in document order, one section per heading
\* line (1 to 6 markers, white space, then text) with the trimmed heading text
\* as title, the number of markers as level, and as content the trimmed join
\* of the lines up to the next heading or the end; no heading gives the empty
\* list, and lines before the first heading are in no section.
C27_SectionPerHeading ==
    (fpc = "returned" /\ fCall.name = "extractSections") =>
        fResult[1] = SectionsOf(fCall.text)

-----------------------------------------------------------------------------
(* SpecClient: OpenAIClient.createEmbedding and createChatCompletion.      *)
(* A 32-bit word is the pair <<high half, low half>> of 16-bit numbers.    *)

Half == 65536

\* a ^ b on the low n bits, bit by bit from the top
RECURSIVE XorBits(_, _, _)
XorBits(a, b, n) ==
    IF n = 0 THEN 0
    ELSE LET bit == 2 ^ (n - 1)
         IN  (bit * ((((a \div bit) % 2) + ((b \div bit) % 2)) % 2))
             + XorBits(a, b, n - 1)

\* a ^ b on words
Xor32(a, b) == <<XorBits(a[1], b[1], 16), XorBits(a[2], b[2], 16)>>

\* (a << 13) on 32 bits
Shl13(a) == <<(((a[1] % 8) * 8192) + (a[2] \div 8)) % Half, (a[2] % 8) * 8192>>
\* a >>> 17
Shr17(a) == <<0, a[1] \div 2>>
\* (a << 5) on 32 bits
Shl5(a) == <<(((a[1] % 2048) * 32) + (a[2] \div 2048)) % Half, (a[2] % 2048) * 32>>

\* Math.imul(h, 16777619) >>> 0, 16777619 being 256 * 65536 + 403
ImulPrime(h) ==
    LET low == h[2] * 403
    IN  <<((low \div Half) + (h[1] * 403) + (h[2] * 256)) % Half, low % Half>>

\* 2166136261 >>> 0
FnvOffset == <<33052, 40389>>

\* String.prototype.charCodeAt for the characters of the model
CharCode(c) ==
    CASE c = "a" -> 97  [] c = "d" -> 100 [] c = "e" -> 101 [] c = "h" -> 104
      [] c = "l" -> 108 [] c = "o" -> 111 [] c = "r" -> 114 [] c = "w" -> 119
      [] c = " " -> 32  [] c = "\n" -> 10

\* a hash that forgets the text
FnvHash_constant(text, h) == h

\* the loop h ^= text.charCodeAt(i); h = Math.imul(h, 16777619) >>> 0
\* (each iteration is given the value of h the iteration before it left)
RECURSIVE FnvHash(_, _)
FnvHash(text, h) ==
    IF text = <<>> THEN h
    ELSE CHOOSE result \in
             {FnvHash(Tail(text), next) :
                 next \in {ImulPrime(Xor32(h, <<0, CharCode(Head(text))>>))}} : TRUE

\* one step of the xorshift32 generator
XorShift(h) ==
    LET a == Xor32(h, Shl13(h))
        b == Xor32(a, Shr17(a))
    IN  Xor32(b, Shl5(b))

\* the states of the generator that give the first n components
RECURSIVE RandWords(_, _)
RandWords(h, n) ==
    IF n = 0 THEN <<>>
    ELSE LET next == XorShift(h) IN <<next>> \o RandWords(next, n - 1)

\* mockEmbedding(text, dim = 1536)
MockDim == 1536

\* mockEmbedding(text): its length and, for each of the leading components,
\* the word w of which the component is (w / 2^32 * 2 - 1) / norm
mockEmbedding(text) ==
    [length |-> MockDim, words |-> RandWords(FnvHash(text, FnvOffset), MaxComponents)]

\* a component is negative exactly when its word is below 2^31; the division
\* by norm, which is positive, keeps the sign
Negative(word) == word[1] < 32768

\* the embedding models and the length of the vectors the provider returns for them
EmbeddingModels == {"text-embedding-3-small", "text-embedding-3-large"}
ProviderDimension(model) == IF model = "text-embedding-3-large" THEN 3072 ELSE 1536

\* data.data[0].embedding
liveEmbedding(model) == [length |-> ProviderDimension(model), words |-> <<>>]

Str_hello == <<"h", "e", "l", "l", "o">>
Str_world == <<"w", "o", "r", "l", "d">>
EmbedTexts == {Str_hello, Str_world, <<"a">>}

\* a failed provider call: the status, the error code of the response body and
\* the words of the message thrown, `OpenAI API error: ${status} ${statusText} - ${text}`
ProviderError(status, code, words) == [status |-> status, code |-> code, words |-> words]

ProviderErrors ==
    {ProviderError(402, "billing_hard_limit_reached", {"402", "payment", "required"}),
     ProviderError(403, "forbidden", {"403", "forbidden"}),
     ProviderError(429, "insufficient_quota", {"429", "insufficient_quota", "quota"}),
     ProviderError(429, "rate_limit_exceeded", {"429", "rate", "limit", "reached"}),
     ProviderError(429, "rate_limit_exceeded",
                   {"429", "rate", "limit", "reached", "add", "payment", "method", "billing"}),
     ProviderError(500, "server_error", {"500", "internal", "server", "error"}),
     ProviderError(404, "model_not_found", {"404", "model", "not", "found"})}

\* /\b402\b|\b403\b|insufficient_quota|billing|payment/.test(msg)
BillingPattern(words) ==
    \E w \in words : w \in {"402", "403", "insufficient_quota", "billing", "payment"}

\* shouldFallbackToMock(error)
shouldFallbackToMock(allow, error) ==
    IF ~allow THEN FALSE ELSE BillingPattern(error.words)

Returned(call, value, mock) == [ok |-> TRUE, method |-> call.method, value |-> value, mock |-> mock]
Thrown(call, error) == [ok |-> FALSE, method |-> call.method, error |-> error, mock |-> FALSE]

\* the mock result of a call
MockResult(call) ==
    IF call.method = "createEmbedding" THEN mockEmbedding(call.text) ELSE "mockChatCompletion"

\* the live result of a call
LiveResult(call) ==
    IF call.method = "createEmbedding" THEN liveEmbedding(embeddingModel) ELSE "choices[0]"

\* the embeddings returned so far
Logged(call, result) ==
    IF result.ok /\ call.method = "createEmbedding"
    THEN Append(kLog, [text |-> call.text, value |-> result.value])
    ELSE kLog

ClientFrame == UNCHANGED <<documents, op, mockMode, apiKey, queryVars, uploadVars, retryVars,
                           chunkVars, configVars, pureVars, concVars, stepVars>>

\* createEmbedding(text) or createChatCompletion(messages) up to its first wait
ClientCall(call) ==
    /\ kpc = "idle"
    /\ Len(kLog) < MaxCalls
    /\ kRequests < MaxCalls
    /\ kCall' = call
    /\ IF mockMode
       THEN /\ kResult' = Returned(call, MockResult(call), TRUE)
            /\ kLog' = Logged(call, kResult')
            /\ kpc' = "returned"
            /\ UNCHANGED kRequests
       ELSE /\ kRequests' = kRequests + 1        \* postWithRetry
            /\ kpc' = "waiting"
            /\ UNCHANGED <<kResult, kLog>>
    /\ ClientFrame

\* postWithRetry returns the provider's data
ProviderReturns ==
    /\ kpc = "waiting"
    /\ kResult' = Returned(kCall, LiveResult(kCall), FALSE)
    /\ kLog' = Logged(kCall, kResult')
    /\ kpc' = "returned"
    /\ UNCHANGED <<kCall, kRequests>>
    /\ ClientFrame

\* postWithRetry throws: the catch block
ProviderThrows(error) ==
    /\ kpc = "waiting"
    /\ IF shouldFallbackToMock(fallbackFlag, error)
       THEN /\ kResult' = Returned(kCall, MockResult(kCall), TRUE)
            /\ kpc' = "returned"
       ELSE /\ kResult' = Thrown(kCall, error)
            /\ kpc' = "threw"
    /\ kLog' = Logged(kCall, kResult')
    /\ UNCHANGED <<kCall, kRequests>>
    /\ ClientFrame

\* the caller has the outcome; the next call may come
ClientCallEnds ==
    /\ kpc \in {"returned", "threw"}
    /\ kpc' = "idle"
    /\ kCall' = <<>>
    /\ kResult' = <<>>
    /\ UNCHANGED <<kRequests, kLog>>
    /\ ClientFrame

ClientCalls ==
    {[method |-> "createEmbedding", text |-> t] : t \in EmbedTexts}
    \cup {[method |-> "createChatCompletion", text |-> <<>>]}

\* the chunk another request adds between two calls
ClientStoreChunk == Chunk(<<"doc", 0>>, <<1, 0>>, "openai-docs", <<"d">>, Undefined, Undefined)

InitClient ==
    /\ documents = <<>>
    /\ op = NoOp
    /\ mockMode \in BOOLEAN
    /\ apiKey = TRUE
    /\ fallbackFlag \in BOOLEAN
    /\ embeddingModel \in EmbeddingModels
    /\ QueryIdle /\ UploadIdle /\ RetryIdle /\ ChunkIdle
    /\ PureIdle /\ ClientIdle /\ ConcIdle /\ StepIdle

NextClient ==
    \/ \E call \in ClientCalls : ClientCall(call)
    \/ ProviderReturns
    \/ \E error \in ProviderErrors : ProviderThrows(error)
    \/ ClientCallEnds
    \/ AddDocument(ClientStoreChunk)
    \/ Clear

SpecClient == InitClient /\ [][NextClient]_vars

\* two words of which one gives a negative and the other a non-negative component
DifferInSign(v, w) ==
    \E i \in 1..MaxComponents : Negative(v.words[i]) # Negative(w.words[i])

BillingFailure(error) ==
    \/ error.status \in {402, 403}
    \/ error.code \in {"insufficient_quota", "billing_hard_limit_reached"}

\* C16: a live call returns a mock result only when the fallback flag is on and
\* the provider failed for billing or quota; with the flag off, or after any
\* other failure (429 or 5xx after the retries, another 4xx), the call throws
\* the provider's error.
C16_FallbackOnlyOnBilling ==
    [][/\ ProviderReturns => ~kResult'.mock
       /\ \A error \in ProviderErrors :
             ProviderThrows(error) =>
                IF fallbackFlag /\ BillingFailure(error)
                THEN kResult' = Returned(kCall, MockResult(kCall), TRUE)
                ELSE kResult' = Thrown(kCall, error)
      ]_vars

-----------------------------------------------------------------------------
(* SpecUpload: POST /api/admin/upload.  The handler waits at               *)
(* parseFileToText and at every createEmbedding call.                      *)

DEFAULT_MAX_FILE_MB == 50
DEFAULT_MAX_BATCH_MB == 100

\* text.trim().length < 20
MinUploadTextChars == 20
\* processDocument(processedDoc, 800, ...), and chunkText's default overlap
UploadChunkSize == 800
DefaultOverlap == 200

RECURSIVE Repeat(_, _)
Repeat(s, n) == IF n = 0 THEN <<>> ELSE s \o Repeat(s, n - 1)

\* the texts parseFileToText returns: 19 letters, 11 letters with blanks
\* between them (21 characters), 20 letters
Text_19     == Repeat(<<"a">>, 19)
Text_spaced == Repeat(<<"a", " ">>, 10) \o <<"a">>
Text_20     == Repeat(<<"a">>, 20)
UploadTexts == {Text_19, Text_spaced, Text_20}

\* only the empty text counts as no text
NoUsableText_emptyOnly(text) == ~Truthy(text)

\* if (!text || text.trim().length < 20)
NoUsableText(text) == ~Truthy(text) \/ Len(Trim(text)) < MinUploadTextChars

\* the numbers of chunks processDocument adds for the sections of a text
SectionChunkCounts == {0, 1}

\* a file of the form data: its name, its size in MB, whether parseFileToText
\* throws, the text it returns otherwise, and the number of chunks that
\* processDocument makes of the sections extractSections finds in the text
UploadFiles ==
    {[name |-> <<"x">>, size |-> sz, parse |-> "throws", text |-> <<>>, sections |-> 0] :
        sz \in {10, 60}}
    \cup {[name |-> <<"x">>, size |-> 10, parse |-> "text", text |-> t, sections |-> 0] :
            t \in UploadTexts}
    \cup {[name |-> <<"x">>, size |-> 10, parse |-> "text", text |-> Text_20, sections |-> n] :
            n \in SectionChunkCounts}

\* chunks.length of processDocument for a file that reaches it, 0 for the others
FileChunks(file) ==
    IF file.parse = "throws" \/ NoUsableText(file.text) THEN 0
    ELSE Len(DocumentProcessor_chunkText(file.text, UploadChunkSize, DefaultOverlap))
         + file.sections

RECURSIVE SeqsUpTo(_, _)
SeqsUpTo(S, n) ==
    IF n = 0 THEN {<<>>}
    ELSE LET shorter == SeqsUpTo(S, n - 1)
         IN  shorter \cup {Append(q, x) : q \in shorter, x \in S}

\* the form data: files, namespace (trimmed, "" when absent), clearNamespace
UploadRequests ==
    {[files |-> fs, namespace |-> ns, clearNamespace |-> c] :
        fs \in SeqsUpTo(UploadFiles, MaxFiles), ns \in {<<>>, Ns_a}, c \in BOOLEAN}

RECURSIVE SumSizes(_)
SumSizes(files) == IF files = <<>> THEN 0 ELSE Head(files).size + SumSizes(Tail(files))

\* the size checks: the error, or "ok"
ValidateSizes(files) ==
    IF \E i \in DOMAIN files : files[i].size > DEFAULT_MAX_FILE_MB THEN "file"
    ELSE IF SumSizes(files) > DEFAULT_MAX_BATCH_MB THEN "batch"
    ELSE "ok"

\* the chunks a request would add to the store, had every embedding succeeded
RECURSIVE SumChunks(_)
SumChunks(files) == IF files = <<>> THEN 0 ELSE FileChunks(Head(files)) + SumChunks(Tail(files))

NoStats == [filesProcessed |-> 0, totalChunks |-> 0, successfulChunks |-> 0, failedChunks |-> 0]

UploadFailure(status) == [status |-> status, success |-> FALSE]
UploadSuccess(st, errs) == [status |-> 200, success |-> TRUE, stats |-> st, errors |-> errs]

UploadFrame == UNCHANGED <<op, mockMode, apiKey, queryVars, retryVars, chunkVars,
                          configVars, pureVars, clientVars, concVars, stepVars>>

\* the handler up to its first wait: validation, the optional clear, the client
UploadPost(req) ==
    /\ upc = "idle"
    /\ Len(documents) + SumChunks(req.files) <= MaxStore + 1
    /\ uReq' = req
    /\ IF req.files = <<>> \/ ValidateSizes(req.files) # "ok"
       THEN /\ uResponse' = UploadFailure(400)
            /\ upc' = "done"
            /\ UNCHANGED <<documents, fileIdx, chunkIdx, stats, errors>>
       ELSE /\ documents' =
                  IF req.clearNamespace
                  THEN IF Truthy(req.namespace)
                       THEN VectorStore_clearNamespace(documents, req.namespace)
                       ELSE <<>>
                  ELSE documents
            /\ IF ~apiKey /\ ~mockMode
               THEN /\ uResponse' = UploadFailure(500)       \* getOpenAIClient throws
                    /\ upc' = "done"
                    /\ UNCHANGED <<fileIdx, chunkIdx, stats, errors>>
               ELSE /\ uResponse' = <<>>
                    /\ stats' = NoStats
                    /\ errors' = <<>>
                    /\ fileIdx' = 1
                    /\ chunkIdx' = 0
                    /\ upc' = "parsing"
    /\ UploadFrame

\* the loop goes to the next file, or the handler responds
NextFile(st, errs) ==
    IF fileIdx < Len(uReq.files)
    THEN /\ fileIdx' = fileIdx + 1
         /\ chunkIdx' = 0
         /\ upc' = "parsing"
         /\ uResponse' = <<>>
    ELSE /\ upc' = "done"
         /\ uResponse' = UploadSuccess(st, errs)
         /\ UNCHANGED <<fileIdx, chunkIdx>>

\* parseFileToText settles for the current file; processDocument, which does
\* not wait, follows it for a usable text
UploadParses ==
    /\ upc = "parsing"
    /\ LET file == uReq.files[fileIdx]
       IN  IF file.parse = "throws"
           THEN /\ errors' = Append(errors, <<"process", fileIdx>>)
                /\ stats' = stats
                /\ NextFile(stats', errors')
           ELSE IF NoUsableText(file.text)
           THEN /\ errors' = Append(errors, <<"no text", fileIdx>>)
                /\ stats' = [stats EXCEPT !.filesProcessed = @ + 1]
                /\ NextFile(stats', errors')
           ELSE /\ stats' = [stats EXCEPT !.totalChunks = @ + FileChunks(file)]
                /\ errors' = errors
                /\ chunkIdx' = 0
                /\ upc' = "embedding"
                /\ UNCHANGED <<fileIdx, uResponse>>
    /\ UNCHANGED <<documents, uReq>>
    /\ UploadFrame

\* the inner loop goes to the next chunk, or the file is finished
NextChunk(st, errs) ==
    IF chunkIdx + 1 < FileChunks(uReq.files[fileIdx])
    THEN /\ chunkIdx' = chunkIdx + 1
         /\ stats' = st
         /\ UNCHANGED <<fileIdx, upc, uResponse>>
    ELSE /\ stats' = [st EXCEPT !.filesProcessed = @ + 1]
         /\ NextFile(stats', errs)

\* chunk.content of chunk i of a file: a chunk of the text, or, for a chunk of
\* a section, `${section.title}\n\n${chunk}`
ChunkContent(file, i) ==
    LET mainChunks == DocumentProcessor_chunkText(file.text, UploadChunkSize, DefaultOverlap)
    IN  IF i < Len(mainChunks) THEN mainChunks[i + 1] ELSE <<"d", "\n", "\n", "a">>

\* what createEmbedding(text) can return: the mock vector in mock mode, else
\* the provider's vector or, after a failure that falls back, the mock vector
CreateEmbeddingResults(text) ==
    IF mockMode THEN {mockEmbedding(text)}
    ELSE {liveEmbedding(embeddingModel)}
         \cup (IF fallbackFlag THEN {mockEmbedding(text)} ELSE {})

\* what createEmbedding can return for the chunk the handler is at
UploadEmbeddingResults ==
    IF upc = "embedding"
    THEN CreateEmbeddingResults(ChunkContent(uReq.files[fileIdx], chunkIdx))
    ELSE {}

\* the chunk after the one whose embedding has arrived
UploadedChunk_nextIndex(embedding) ==
    Chunk(<<uReq.files[fileIdx].name, chunkIdx + 1>>, embedding, "uploaded",
          uReq.files[fileIdx].name, Undefined,
          IF Truthy(uReq.namespace) THEN uReq.namespace ELSE Undefined)

\* the chunk the handler inserts
UploadedChunk(embedding) ==
    Chunk(<<uReq.files[fileIdx].name, chunkIdx>>, embedding, "uploaded",
          uReq.files[fileIdx].name, Undefined,
          IF Truthy(uReq.namespace) THEN uReq.namespace ELSE Undefined)

\* the chunk inserted and not counted
UploadEmbeddingReturns_uncounted(embedding) ==
    /\ upc = "embedding"
    /\ documents' = Append(documents, UploadedChunk(embedding))
    /\ errors' = errors
    /\ NextChunk(stats, errors')
    /\ UNCHANGED uReq
    /\ UploadFrame

\* createEmbedding returns for chunk i: the chunk is inserted
UploadEmbeddingReturns(embedding) ==
    /\ upc = "embedding"
    /\ documents' = Append(documents, UploadedChunk(embedding))
    /\ errors' = errors
    /\ NextChunk([stats EXCEPT !.successfulChunks = @ + 1], errors')
    /\ UNCHANGED uReq
    /\ UploadFrame

\* a failed embedding taken as the failure of the whole request
UploadEmbeddingThrows_aborts ==
    /\ upc = "embedding"
    /\ ~mockMode
    /\ stats' = [stats EXCEPT !.failedChunks = @ + 1]
    /\ errors' = Append(errors, <<"embed", fileIdx, chunkIdx>>)
    /\ upc' = "done"
    /\ uResponse' = UploadFailure(500)
    /\ UNCHANGED <<documents, uReq, fileIdx, chunkIdx>>
    /\ UploadFrame

\* createEmbedding throws for chunk i: the inner catch counts it
UploadEmbeddingThrows ==
    /\ upc = "embedding"
    /\ ~mockMode
    /\ errors' = Append(errors, <<"embed", fileIdx, chunkIdx>>)
    /\ NextChunk([stats EXCEPT !.failedChunks = @ + 1], errors')
    /\ UNCHANGED <<documents, uReq>>
    /\ UploadFrame

\* the response is sent; the next request may come
UploadDone ==
    /\ upc = "done"
    /\ upc' = "idle"
    /\ uReq' = <<>>
    /\ fileIdx' = 0
    /\ chunkIdx' = 0
    /\ stats' = <<>>
    /\ errors' = <<>>
    /\ uResponse' = <<>>
    /\ UNCHANGED documents
    /\ UploadFrame

\* the environments of the upload handler in which createEmbedding has one
\* source of vectors: mock mode, or live mode without the fallback
UploadConfigs ==
    {[mock |-> m, key |-> k, fallback |-> FALSE, model |-> DefaultEmbeddingModel] :
        m \in BOOLEAN, k \in BOOLEAN}

\* the environments in which a live call may fall back to the mock
UploadFallbackConfigs ==
    {[mock |-> FALSE, key |-> TRUE, fallback |-> TRUE, model |-> model] :
        model \in EmbeddingModels}

\* an empty store and an idle handler in one of the environments
UploadInit(configs) ==
    /\ documents = <<>>
    /\ op = NoOp
    /\ \E config \in configs :
          /\ mockMode = config.mock
          /\ apiKey = config.key
          /\ fallbackFlag = config.fallback
          /\ embeddingModel = config.model
    /\ QueryIdle /\ UploadIdle /\ RetryIdle /\ ChunkIdle
    /\ PureIdle /\ ClientIdle /\ ConcIdle /\ StepIdle

InitUpload == UploadInit(UploadConfigs)

InitUploadFallback == UploadInit(UploadFallbackConfigs)

NextUpload ==
    \/ \E req \in UploadRequests : UploadPost(req)
    \/ UploadParses
    \/ \E embedding \in UploadEmbeddingResults : UploadEmbeddingReturns(embedding)
    \/ UploadEmbeddingThrows
    \/ UploadDone

SpecUpload == InitUpload /\ [][NextUpload]_vars

\* the same handler in the environments where a live call may fall back to the mock
SpecUploadFallback == InitUploadFallback /\ [][NextUpload]_vars

-----------------------------------------------------------------------------
(* SpecUploadEnv: the upload handler in a process whose environment is      *)
(* changed between two requests.  OPENAI_API_KEY, USE_MOCK_OPENAI and       *)
(* DEMO_MODE are read from process.env at every call of getOpenAIClient,    *)
(* and the store outlives a reload (globalThis).                            *)

\* the environment is changed while no upload request is running
EnvironmentChanges(mock, key) ==
    /\ upc = "idle"
    /\ <<mock, key>> # <<mockMode, apiKey>>
    /\ mockMode' = mock
    /\ apiKey' = key
    /\ UNCHANGED <<documents, op, queryVars, uploadVars, retryVars, chunkVars, configVars,
                   pureVars, clientVars, concVars, stepVars>>

NextUploadEnv ==
    \/ \E req \in UploadRequests : UploadPost(req)
    \/ UploadParses
    \/ \E embedding \in UploadEmbeddingResults : UploadEmbeddingReturns(embedding)
    \/ UploadEmbeddingThrows
    \/ UploadDone
    \/ \E mock \in BOOLEAN, key \in BOOLEAN : EnvironmentChanges(mock, key)

SpecUploadEnv == InitUpload /\ [][NextUploadEnv]_vars

\* C30: an upload request that does not complete as a batch (it is rejected
\* by the validation, or the client cannot be made because the credentials
\* are missing and mock mode is off) leaves the store as it was before the
\* request, also when it asked for the clear of the namespace or of the store.
C30_FailedRequestLeavesStore ==
    [][ (upc = "idle" /\ upc' = "done" /\ ~uResponse'.success) => documents' = documents ]_vars

-----------------------------------------------------------------------------
(* SpecProcess: DocumentProcessor.processDocument *)

DefaultChunkSize == 1000

\* the chunks of the whole content, each with the metadata of the document
MainResults(document, chunkSize, sourceLabel, namespace) ==
    LET mainChunks == DocumentProcessor_chunkText(document.content, chunkSize, DefaultOverlap)
    IN  [i \in DOMAIN mainChunks |->
            [content  |-> mainChunks[i],
             metadata |-> [source |-> sourceLabel, title |-> document.title,
                           url |-> document.url, section |-> Undefined,
                           namespace |-> namespace]]]

\* the chunks of one section, each with the title in front and as its tag
SectionResults(document, section, chunkSize, sourceLabel, namespace) ==
    LET sectionChunks == DocumentProcessor_chunkText(section.content, chunkSize, DefaultOverlap)
    IN  [i \in DOMAIN sectionChunks |->
            [content  |-> section.title \o <<"\n", "\n">> \o sectionChunks[i],
             metadata |-> [source |-> sourceLabel, title |-> document.title,
                           url |-> document.url, section |-> section.title,
                           namespace |-> namespace]]]

\* the for loop over document.sections
RECURSIVE SectionsResults(_, _, _, _, _)
SectionsResults(document, sections, chunkSize, sourceLabel, namespace) ==
    IF sections = <<>> THEN <<>>
    ELSE SectionResults(document, Head(sections), chunkSize, sourceLabel, namespace)
             \o SectionsResults(document, Tail(sections), chunkSize, sourceLabel, namespace)

\* the sections first: not what the code does
DocumentProcessor_processDocument_sectionsFirst(document, chunkSize, sourceLabel, namespace) ==
    SectionsResults(document, document.sections, chunkSize, sourceLabel, namespace)
        \o MainResults(document, chunkSize, sourceLabel, namespace)

DocumentProcessor_processDocument(document, chunkSize, sourceLabel, namespace) ==
    MainResults(document, chunkSize, sourceLabel, namespace)
        \o SectionsResults(document, document.sections, chunkSize, sourceLabel, namespace)

Text_sentence ==
    <<"H", "e", "l", "l", "o", " ", "w", "o", "r", "l", "d", ".", " ", "T",
      "h", "i", "s", " ", "i", "s", " ", "a", " ", "t", "e", "s", "t", ".">>

Text_intro == <<"#", " ", "I", "n", "t", "r", "o", "\n">> \o Text_sentence

Str_Intro == <<"I", "n", "t", "r", "o">>

\* n letters
LettersA(n) == [i \in 1..n |-> "a"]

\* the contents: the example, a text with no heading, two short sections, a
\* section longer than a chunk, a heading alone, nothing
ProcessContents ==
    { Text_intro,
      Text_sentence,
      <<"#", " ", "A", "\n", "x", ".", "\n", "#", "#", " ", "B", "\n", "y">>,
      <<"#", " ", "A", "\n">> \o LettersA(DefaultChunkSize + 100),
      <<"#", " ", "A">>,
      <<>> }

Str_doc == <<"d", "o", "c">>
Str_url == <<"l", "o", "c", "a", "l", ":", "/", "/", "d", "o", "c">>
Str_uploaded == <<"u", "p", "l", "o", "a", "d", "e", "d">>
Str_openai_docs == <<"o", "p", "e", "n", "a", "i", "-", "d", "o", "c", "s">>

\* the calls: the size of the callers (800) and the default, the two source
\* labels, with and without a namespace
ProcessCalls ==
    { [name |-> "processDocument",
       document |-> [title |-> Str_doc, content |-> c, url |-> Str_url,
                     sections |-> DocumentProcessor_extractSections(c)],
       chunkSize |-> a[1], sourceLabel |-> a[2], namespace |-> ns] :
        c \in ProcessContents,
        a \in {<<DefaultChunkSize, Str_openai_docs>>, <<UploadChunkSize, Str_uploaded>>,
               <<DefaultChunkSize, Str_uploaded>>},
        ns \in {Undefined, Ns_a} }

\* processDocument(document, chunkSize, sourceLabel, namespace) resolves
ProcessDocumentReturns ==
    /\ fpc = "called"
    /\ fCall.name = "processDocument"
    /\ fResult' = DocumentProcessor_processDocument(fCall.document, fCall.chunkSize,
                       fCall.sourceLabel, fCall.namespace)
    /\ fpc' = "returned"
    /\ UNCHANGED fCall
    /\ PureFrame

\* the caller has taken the chunks
ProcessDocumentEnds ==
    /\ fpc = "returned"
    /\ fCall.name = "processDocument"
    /\ fpc' = "used"
    /\ UNCHANGED <<fCall, fResult>>
    /\ PureFrame

\* processDocument has been called
InitProcess ==
    /\ documents = <<>>
    /\ op = NoOp
    /\ mockMode = FALSE
    /\ apiKey = TRUE
    /\ QueryIdle /\ UploadIdle /\ RetryIdle /\ ChunkIdle
    /\ DefaultConfig /\ ClientIdle /\ ConcIdle /\ StepIdle
    /\ fpc = "called"
    /\ fCall \in ProcessCalls
    /\ fResult = <<>>

NextProcess ==
    \/ ProcessDocumentReturns
    \/ ProcessDocumentEnds

SpecProcess == InitProcess /\ [][NextProcess]_vars

\* needle occurs in hay
HasSubstring(hay, needle) ==
    \E i \in 0..(Len(hay) - Len(needle)) : SubSeq(hay, i + 1, i + Len(needle)) = needle

\* the number of chunks of the first k sections of the call
RECURSIVE SectionChunksBefore(_)
SectionChunksBefore(k) ==
    IF k = 0 THEN 0
    ELSE SectionChunksBefore(k - 1)
             + Len(DocumentProcessor_chunkText(fCall.document.sections[k].content,
                                               fCall.chunkSize, DefaultOverlap))

\* C23: processDocument emits the chunks of the whole content with no section
\* tag, then for each section in document order its chunks, each with the
\* section title and a blank line in front and the title as tag; every chunk
\* has the title, url, source label and namespace of the call; the example
\* "# Intro\nHello world. This is a test." at size 1000 gives one main chunk
\* and one "Intro" chunk, both with the whole sentence.
C23_MainThenSections ==
    (fpc = "returned" /\ fCall.name = "processDocument") =>
        LET document == fCall.document
            main == DocumentProcessor_chunkText(document.content, fCall.chunkSize,
                                                DefaultOverlap)
            Of(k) == DocumentProcessor_chunkText(document.sections[k].content,
                                                 fCall.chunkSize, DefaultOverlap)
        IN  /\ Len(fResult) = Len(main) + SectionChunksBefore(Len(document.sections))
            /\ \A i \in DOMAIN main :
                    /\ fResult[i].content = main[i]
                    /\ fResult[i].metadata.section = Undefined
            /\ \A k \in DOMAIN document.sections : \A i \in DOMAIN Of(k) :
                    LET r == fResult[Len(main) + SectionChunksBefore(k - 1) + i]
                    IN  /\ r.content = document.sections[k].title \o <<"\n", "\n">> \o Of(k)[i]
                        /\ r.metadata.section = document.sections[k].title
            /\ \A i \in DOMAIN fResult :
                    /\ fResult[i].metadata.title = document.title
                    /\ fResult[i].metadata.url = document.url
                    /\ fResult[i].metadata.source = fCall.sourceLabel
                    /\ fResult[i].metadata.namespace = fCall.namespace
            /\ (document.content = Text_intro /\ fCall.chunkSize = DefaultChunkSize) =>
                    /\ Len(fResult) = 2
                    /\ fResult[1].metadata.section = Undefined
                    /\ fResult[2].metadata.section = Str_Intro
                    /\ HasSubstring(fResult[1].content, Text_sentence)
                    /\ HasSubstring(fResult[2].content, Text_sentence)

\* the example has been processed
C23_Witness ==
    /\ fpc = "returned"
    /\ fCall.name = "processDocument"
    /\ fCall.document.content = Text_intro
    /\ fCall.chunkSize = DefaultChunkSize
    /\ Len(fResult) = 2

-----------------------------------------------------------------------------
(* SpecSources: RAGService.extractSources on the chunks of a retrieval *)

Str_a_b == <<"a", "-", "b">>
Str_b_main == <<"b", "-", "m", "a", "i", "n">>

\* retrieved chunks: titles and sections with and without a "-", no section,
\* and the section named "main"
SourceChunks ==
    {Chunk(<<"c", 0>>, <<1, 0>>, "openai-docs", title, section, Undefined) :
        title \in {<<"a">>, Str_a_b}, section \in {Undefined, Str_main, Str_b_main}}

SourceCalls ==
    {[name |-> "extractSources", chunks |-> chunks] :
        chunks \in UNION {[1..n -> SourceChunks] : n \in 1..MaxStore}}

\* this.extractSources(relevantChunks) returns
ExtractSourcesReturns ==
    /\ fpc = "called"
    /\ fCall.name = "extractSources"
    /\ fResult' = RAGService_extractSources(fCall.chunks)
    /\ fpc' = "returned"
    /\ UNCHANGED fCall
    /\ PureFrame

\* the sources are in the result of the query
ExtractSourcesEnds ==
    /\ fpc = "returned"
    /\ fCall.name = "extractSources"
    /\ fpc' = "used"
    /\ UNCHANGED <<fCall, fResult>>
    /\ PureFrame

\* extractSources has been called with the chunks retrieved
InitSources ==
    /\ documents = <<>>
    /\ op = NoOp
    /\ mockMode = FALSE
    /\ apiKey = TRUE
    /\ QueryIdle /\ UploadIdle /\ RetryIdle /\ ChunkIdle
    /\ DefaultConfig /\ ClientIdle /\ ConcIdle /\ StepIdle
    /\ fpc = "called"
    /\ fCall \in SourceCalls
    /\ fResult = <<>>

NextSources ==
    \/ ExtractSourcesReturns
    \/ ExtractSourcesEnds

SpecSources == InitSources /\ [][NextSources]_vars

\* the pair (title, section or "main") of a chunk
SourcePair(chunk) ==
    <<chunk.metadata.title,
      IF Truthy(chunk.metadata.section) THEN chunk.metadata.section ELSE Str_main>>

\* the chunks that are the first of their pair, in order
RECURSIVE FirstOfPairs(_)
FirstOfPairs(chunks) ==
    IF chunks = <<>> THEN <<>>
    ELSE LET n == Len(chunks)
             front == FirstOfPairs(SubSeq(chunks, 1, n - 1))
         IN  IF \E i \in 1..(n - 1) : SourcePair(chunks[i]) = SourcePair(chunks[n])
             THEN front ELSE Append(front, chunks[n])

\* C26: the source list has one entry for every distinct pair (title,
\* section or "main") among the chunks retrieved, in the order of first
\* occurrence and made from the first chunk of the pair; chunks of different
\* pairs are never merged, and the list is not empty when a chunk was
\* retrieved.
C26_OneSourcePerPair ==
    (fpc = "returned" /\ fCall.name = "extractSources") =>
        LET first == FirstOfPairs(fCall.chunks)
        IN  /\ fResult = [i \in DOMAIN first |->
                              [title   |-> first[i].metadata.title,
                               section |-> first[i].metadata.section]]
            /\ fResult # <<>>

-----------------------------------------------------------------------------
(* SpecCosine: the two cosineSimilarity methods, applied to the same pair    *)
(* of vectors: first VectorStore's, then RAGService's.                       *)

CosineComponents == {-1, 0, 1}
CosineVectors == SeqsUpTo(CosineComponents, MaxComponents)

\* VectorStore.cosineSimilarity(a, b) returns
VectorStoreCosineReturns ==
    /\ fpc = "called"
    /\ fCall.name = "cosineSimilarity"
    /\ fResult' = <<VectorStore_cosineSimilarity(fCall.a, fCall.b)>>
    /\ fpc' = "vectorStore"
    /\ UNCHANGED fCall
    /\ PureFrame

\* RAGService.cosineSimilarity(a, b) returns
RAGServiceCosineReturns ==
    /\ fpc = "vectorStore"
    /\ fResult' = Append(fResult, RAGService_cosineSimilarity(fCall.a, fCall.b))
    /\ fpc' = "ragService"
    /\ UNCHANGED fCall
    /\ PureFrame

\* cosineSimilarity(a, b) has been called
InitCosine ==
    /\ documents = <<>>
    /\ op = NoOp
    /\ mockMode = FALSE
    /\ apiKey = TRUE
    /\ QueryIdle /\ UploadIdle /\ RetryIdle /\ ChunkIdle
    /\ DefaultConfig /\ ClientIdle /\ ConcIdle /\ StepIdle
    /\ fpc = "called"
    /\ fCall \in {[name |-> "cosineSimilarity", a |-> a, b |-> b] :
                    a \in CosineVectors, b \in CosineVectors}
    /\ fResult = <<>>

NextCosine ==
    \/ VectorStoreCosineReturns
    \/ RAGServiceCosineReturns

SpecCosine == InitCosine /\ [][NextCosine]_vars

\* a similarity that is the number 0
IsZero(s) == ~s.nan /\ s.dot = 0

\* two similarities that are the same number
SameNumber(s1, s2) == ~s1.nan /\ ~s2.nan /\ ~SimLT(s1, s2) /\ ~SimLT(s2, s1)

\* C19: cosine similarity is total; it is exactly 0, in both implementations,
\* when the lengths differ, when the vectors have no components and when one
\* of them has magnitude 0; and the two implementations return the same
\* number for every pair of vectors.
C19_CosineZeroAndAgree ==
    fpc = "ragService" =>
        LET a == fCall.a
            b == fCall.b
        IN  /\ ~fResult[1].nan /\ ~fResult[2].nan
            /\ (Len(a) # Len(b) \/ Len(a) = 0 \/ Dot(a, a) = 0 \/ Dot(b, b) = 0) =>
                   IsZero(fResult[1]) /\ IsZero(fResult[2])
            /\ SameNumber(fResult[1], fResult[2])

-----------------------------------------------------------------------------
(* SpecConcurrent: two upload requests and a reader on the shared store,     *)
(* which may hold a chunk of an earlier upload.  A step is what one request  *)
(* does between two of its waits.                                            *)

Uploaders == {1, 2}

\* the file of the request of an uploader
ConcFileName(u) == IF u = 1 THEN <<"x">> ELSE <<"y">>

\* no request
IdleUpload == [pc |-> "idle", namespace |-> <<>>, clear |-> FALSE, n |-> 0, i |-> 0]

\* the requests: the namespace, clearNamespace, and chunks.length of the file.
\* Uploader 1 ingests into namespace a; uploader 2 uploads into a or b and may
\* clear its namespace first
ConcRequests(u) ==
    IF u = 1
    THEN {[namespace |-> Ns_a, clear |-> FALSE, n |-> n] : n \in {1, 2}}
    ELSE {[namespace |-> ns, clear |-> c, n |-> n] :
            ns \in {Ns_a, Ns_b}, c \in BOOLEAN, n \in {1, 2}}

\* the chunk of an earlier upload into namespace b
EarlierChunk == Chunk(<<<<"w">>, 0>>, <<1, 0>>, "uploaded", <<"w">>, Undefined, Ns_b)

\* an insertion that takes the place of the last chunk
VectorStore_addDocument_replacing(docs, chunk) ==
    IF docs = <<>> THEN <<chunk>> ELSE [docs EXCEPT ![Len(docs)] = chunk]

\* this.documents.push(chunk)
VectorStore_addDocument(docs, chunk) == Append(docs, chunk)

\* [...this.documents]
VectorStore_getAllDocuments(docs) == docs

\* the documentChunk of the iteration an uploader is in
ConcChunk(u) ==
    Chunk(<<ConcFileName(u), uploads[u].i>>, <<1, 0>>, "uploaded", ConcFileName(u),
          Undefined,
          IF Truthy(uploads[u].namespace) THEN uploads[u].namespace ELSE Undefined)

ConcFrame == UNCHANGED <<op, mockMode, apiKey, queryVars, uploadVars, retryVars, chunkVars,
                         configVars, pureVars, clientVars, stepVars>>

\* the handler of an uploader up to its first wait in the loop
ConcUploadPost(u, req) ==
    /\ uploads[u].pc = "idle"
    /\ documents' = IF req.clear
                    THEN VectorStore_clearNamespace(documents, req.namespace)
                    ELSE documents
    /\ uploads' = [uploads EXCEPT ![u] = [pc |-> "embedding", namespace |-> req.namespace,
                                           clear |-> req.clear, n |-> req.n, i |-> 0]]
    /\ UNCHANGED snapshot
    /\ ConcFrame

\* the record of an uploader after iteration i of its loop
AfterIteration(u) ==
    [uploads[u] EXCEPT !.i = @ + 1,
                       !.pc = IF uploads[u].i + 1 < uploads[u].n THEN "embedding" ELSE "done"]

\* createEmbedding returns: the chunk is built and pushed, and the handler
\* waits for the promise of addDocument
ConcEmbeddingReturns(u) ==
    /\ uploads[u].pc = "embedding"
    /\ documents' = VectorStore_addDocument(documents, ConcChunk(u))
    /\ uploads' = [uploads EXCEPT ![u].pc = "added"]
    /\ UNCHANGED snapshot
    /\ ConcFrame

\* createEmbedding throws: the catch block, then the next iteration
ConcEmbeddingThrows(u) ==
    /\ uploads[u].pc = "embedding"
    /\ uploads' = [uploads EXCEPT ![u] = AfterIteration(u)]
    /\ UNCHANGED <<documents, snapshot>>
    /\ ConcFrame

\* the promise of addDocument resolves: the next iteration
ConcAddDocumentResolves(u) ==
    /\ uploads[u].pc = "added"
    /\ uploads' = [uploads EXCEPT ![u] = AfterIteration(u)]
    /\ UNCHANGED <<documents, snapshot>>
    /\ ConcFrame

\* the handler responds
ConcUploadResponds(u) ==
    /\ uploads[u].pc = "done"
    /\ uploads' = [uploads EXCEPT ![u].pc = "responded"]
    /\ UNCHANGED <<documents, snapshot>>
    /\ ConcFrame

\* a query reads the store: const allDocs = await vectorStore.getAllDocuments()
ReaderGetsAllDocuments ==
    /\ snapshot = <<>>
    /\ documents # <<>>
    /\ snapshot' = VectorStore_getAllDocuments(documents)
    /\ UNCHANGED <<documents, uploads>>
    /\ ConcFrame

\* the query ends
ReaderEnds ==
    /\ snapshot # <<>>
    /\ snapshot' = <<>>
    /\ UNCHANGED <<documents, uploads>>
    /\ ConcFrame

InitConcurrent ==
    /\ documents \in {<<>>, <<EarlierChunk>>}
    /\ op = NoOp
    /\ mockMode = TRUE
    /\ apiKey = FALSE
    /\ QueryIdle /\ UploadIdle /\ RetryIdle /\ ChunkIdle
    /\ DefaultConfig /\ PureIdle /\ ClientIdle /\ StepIdle
    /\ uploads = [u \in Uploaders |-> IdleUpload]
    /\ snapshot = <<>>

NextConcurrent ==
    \/ \E u \in Uploaders : \E req \in ConcRequests(u) : ConcUploadPost(u, req)
    \/ \E u \in Uploaders : ConcEmbeddingReturns(u)
    \/ \E u \in Uploaders : ConcEmbeddingThrows(u)
    \/ \E u \in Uploaders : ConcAddDocumentResolves(u)
    \/ \E u \in Uploaders : ConcUploadResponds(u)
    \/ ReaderGetsAllDocuments
    \/ ReaderEnds

SpecConcurrent == InitConcurrent /\ [][NextConcurrent]_vars

\* a chunk record with all its parts
Complete(d) ==
    /\ DOMAIN d = {"id", "embedding", "metadata"}
    /\ DOMAIN d.metadata = {"source", "title", "section", "namespace"}
    /\ Len(d.id) = 2
    /\ d.embedding # <<>>

\* the chunks of docs outside a namespace, in their order
Outside(docs, namespace) ==
    LET Other(d) == d.metadata.namespace # namespace
    IN  SelectSeq(docs, Other)

-----------------------------------------------------------------------------
(* SpecQuery: RAGService.query, one step per stretch between two waits,      *)
(* with other requests changing the store between the steps.  Every store    *)
(* method is called at the start of the wait for its promise.                *)

\* the changes other requests make to the store during one call
MaxStoreChanges == 2

\* chunks other requests insert while a query runs
StepChunks ==
    {Chunk(<<"f", 0>>, <<1, 2>>, "openai-docs", <<"f">>, Undefined, Undefined),
     Chunk(<<"g", 0>>, <<1, 0>>, "openai-docs", <<"g">>, Undefined, Ns_a),
     Chunk(<<"u", 0>>, <<1, 2>>, "uploaded", <<"u">>, Undefined, Undefined)}

\* RAGQuery values
StepQueries ==
    {[maxResults |-> k, similarityThreshold |-> t, namespace |-> ns] :
        k \in {1, MaxK}, t \in {7, 12}, ns \in {Undefined, Ns_a}}

StepFrame == UNCHANGED <<op, mockMode, apiKey, uploadVars, retryVars, chunkVars,
                        configVars, pureVars, clientVars, concVars>>

\* vectorStore.similaritySearch(queryEmbedding, maxResults, t, namespace) on
\* the store as it is, t being the threshold the loop is at
SearchNow(qe, thresholds) ==
    VectorStore_similaritySearch(documents, qe, qArgs.maxResults, Head(thresholds),
                                 qArgs.namespace)

\* ragService.query(ragQuery) up to its wait for the embedding
StepQueryCall(ragQuery) ==
    /\ qpc = "idle"
    /\ qArgs' = [via |-> "direct", body |-> <<>>,
                 maxResults |-> ragQuery.maxResults,
                 similarityThreshold |-> ragQuery.similarityThreshold,
                 namespace |-> ragQuery.namespace]
    /\ embedCalls' = 1
    /\ qpc' = "embedding"
    /\ storesSeen' = {documents}
    /\ UNCHANGED <<documents, queryEmbedding, relevantChunks, chatResponse, genCalls,
                   thresholdsLeft>>
    /\ StepFrame

\* the steps after the retrieval: the canned answer, or the generation call
AfterRetrieval(chunks) ==
    IF Len(chunks) = 0
    THEN /\ chatResponse' = Response(200, "not_found", <<>>)
         /\ genCalls' = 0
         /\ qpc' = "done"
    ELSE /\ chatResponse' = <<>>
         /\ genCalls' = 1
         /\ qpc' = "generating"

\* createEmbedding returns; getAllDocuments copies the store.  What the call
\* makes of the copy after the wait is fixed here: the ranking of its uploaded
\* chunks, or, when it has none, the thresholds of the loop
StepEmbeddingReturns(qe) ==
    /\ qpc = "embedding"
    /\ queryEmbedding' = qe
    /\ LET IsUploaded(d) == d.metadata.source = "uploaded"
           uploadedDocs == SelectSeq(documents, IsUploaded)
       IN  IF Len(uploadedDocs) > 0
           THEN /\ relevantChunks' = UploadedTopK(uploadedDocs, qe, qArgs.maxResults)
                /\ thresholdsLeft' = <<>>
           ELSE /\ relevantChunks' = <<>>
                /\ thresholdsLeft' =
                      Thresholds(EffectiveThreshold(mockMode, qArgs.similarityThreshold))
    /\ qpc' = "allDocs"
    /\ UNCHANGED <<documents, qArgs, chatResponse, embedCalls, genCalls, storesSeen>>
    /\ StepFrame

\* the promise of getAllDocuments resolves: the uploaded chunks are the
\* result, or the loop starts with the first similaritySearch
StepAllDocsResolves ==
    /\ qpc = "allDocs"
    /\ IF thresholdsLeft = <<>>
       THEN /\ AfterRetrieval(relevantChunks)
            /\ UNCHANGED relevantChunks
       ELSE /\ relevantChunks' = SearchNow(queryEmbedding, thresholdsLeft)
            /\ qpc' = "searching"
            /\ UNCHANGED <<chatResponse, genCalls>>
    /\ UNCHANGED <<documents, qArgs, queryEmbedding, embedCalls, thresholdsLeft, storesSeen>>
    /\ StepFrame

\* the promise of similaritySearch resolves: break, or the next threshold, or
\* after the last one the second getAllDocuments and the forced top-k
StepSearchResolves ==
    /\ qpc = "searching"
    /\ IF Len(relevantChunks) > 0
       THEN /\ AfterRetrieval(relevantChunks)
            /\ UNCHANGED <<relevantChunks, thresholdsLeft>>
       ELSE IF Len(thresholdsLeft) = 1
       THEN /\ relevantChunks' = ForcedTopK(documents, qArgs.maxResults, qArgs.namespace)
            /\ qpc' = "pool"
            /\ UNCHANGED <<chatResponse, genCalls, thresholdsLeft>>
       ELSE /\ thresholdsLeft' = Tail(thresholdsLeft)
            /\ relevantChunks' = SearchNow(queryEmbedding, thresholdsLeft')
            /\ qpc' = "searching"
            /\ UNCHANGED <<chatResponse, genCalls>>
    /\ UNCHANGED <<documents, qArgs, queryEmbedding, embedCalls, storesSeen>>
    /\ StepFrame

\* the promise of the second getAllDocuments resolves
StepPoolResolves ==
    /\ qpc = "pool"
    /\ AfterRetrieval(relevantChunks)
    /\ UNCHANGED <<documents, qArgs, queryEmbedding, relevantChunks, embedCalls,
                   thresholdsLeft, storesSeen>>
    /\ StepFrame

\* createChatCompletion returns or throws
StepGenerationEnds(ok) ==
    /\ qpc = "generating"
    /\ ok \/ ~mockMode
    /\ chatResponse' = IF ok THEN Response(200, "generated", relevantChunks)
                       ELSE Response(500, "error", <<>>)
    /\ qpc' = "done"
    /\ UNCHANGED <<documents, qArgs, queryEmbedding, relevantChunks, embedCalls, genCalls,
                   thresholdsLeft, storesSeen>>
    /\ StepFrame

\* the caller has the result; the next call may come
StepQueryDone ==
    /\ qpc = "done"
    /\ qpc' = "idle"
    /\ qArgs' = <<>>
    /\ queryEmbedding' = <<>>
    /\ relevantChunks' = <<>>
    /\ chatResponse' = <<>>
    /\ embedCalls' = 0
    /\ genCalls' = 0
    /\ thresholdsLeft' = <<>>
    /\ storesSeen' = {}
    /\ UNCHANGED documents
    /\ StepFrame

\* the query is between its call and its return
InCall == qpc \notin {"idle", "done"}

\* another request has changed the store to docs
StoreBecomes(docs) ==
    /\ InCall => Cardinality(storesSeen) <= MaxStoreChanges
    /\ documents' = docs
    /\ storesSeen' = IF InCall THEN storesSeen \cup {docs} ELSE storesSeen
    /\ UNCHANGED <<queryVars, thresholdsLeft>>
    /\ StepFrame

\* another request inserts a chunk (vectorStore.addDocument)
StepOtherAdds(chunk) ==
    /\ Len(documents) < MaxStore
    /\ StoreBecomes(Append(documents, chunk))

\* another request clears the store (vectorStore.clear)
StepOtherClears ==
    /\ documents # <<>>
    /\ StoreBecomes(<<>>)

InitQuery ==
    /\ documents = <<>>
    /\ op = NoOp
    /\ mockMode \in BOOLEAN
    /\ apiKey = TRUE
    /\ QueryIdle /\ UploadIdle /\ RetryIdle /\ ChunkIdle /\ RestIdle

NextQuery ==
    \/ \E ragQuery \in StepQueries : StepQueryCall(ragQuery)
    \/ \E qe \in QueryVectors : StepEmbeddingReturns(qe)
    \/ StepAllDocsResolves
    \/ StepSearchResolves
    \/ StepPoolResolves
    \/ \E ok \in BOOLEAN : StepGenerationEnds(ok)
    \/ StepQueryDone
    \/ \E chunk \in StepChunks : StepOtherAdds(chunk)
    \/ StepOtherClears

SpecQuery == InitQuery /\ [][NextQuery]_vars

\* the retrieval of the call has ended
RetrievalEnded ==
    \/ qpc = "generating"
    \/ qpc = "done" /\ chatResponse.answer \in {"not_found", "generated"}

\* C21: the chunks a query retrieves are those the retrieval policy gives when
\* it is run at once on one of the contents the store had during the call,
\* whatever other requests insert or clear while the call waits; so they are
\* uploaded chunks only if that content has an uploaded chunk.
C21_OneSnapshot ==
    RetrievalEnded =>
        \E docs \in storesSeen :
            relevantChunks =
                RAGService_retrieve(docs, queryEmbedding, qArgs.maxResults,
                    EffectiveThreshold(mockMode, qArgs.similarityThreshold),
                    qArgs.namespace)

\* the list [effective, 0.3, 0.0] of the call without the values outside
\* [0, 1] and without the second occurrence of a value
ThresholdsDue ==
    LET effective == IF mockMode THEN 0 ELSE qArgs.similarityThreshold
    IN  IF effective < 0 \/ effective > 10 \/ effective = 3 THEN <<3, 0>>
        ELSE IF effective = 0 THEN <<0, 3>>
        ELSE <<effective, 3, 0>>

\* a step of the call, not of another request
QueryStep == qpc' # qpc \/ thresholdsLeft' # thresholdsLeft

\* C25: with no uploaded chunk in the copy of the store the call searches at
\* the thresholds [effective, 0.3, 0.0], in this order, without duplicates and
\* without values outside [0, 1], effective being the requested threshold or
\* 0.0 in mock mode; every search is the search of the namespace at the next
\* threshold; it stops at the first search with a chunk and that result is
\* the retrieval; the forced top-k is reached only from an empty search when
\* the search at 0.0 has been made.
C25_ThresholdOrder ==
    [][ QueryStep =>
          /\ (qpc = "embedding" /\ \A i \in DOMAIN documents :
                                        documents[i].metadata.source # "uploaded")
                 => thresholdsLeft' = ThresholdsDue
          /\ (qpc = "allDocs" /\ thresholdsLeft # <<>>)
                 => /\ qpc' = "searching"
                    /\ thresholdsLeft' = thresholdsLeft
          /\ (qpc = "searching" /\ Len(relevantChunks) > 0)
                 => /\ qpc' = "generating"
                    /\ relevantChunks' = relevantChunks
          /\ (qpc = "searching" /\ Len(relevantChunks) = 0 /\ Len(thresholdsLeft) > 1)
                 => /\ qpc' = "searching"
                    /\ thresholdsLeft' = Tail(thresholdsLeft)
          /\ (qpc' = "searching")
                 => relevantChunks' =
                        VectorStore_similaritySearch(documents, queryEmbedding,
                            qArgs.maxResults, Head(thresholdsLeft'), qArgs.namespace)
          /\ (qpc' = "pool")
                 => /\ qpc = "searching"
                    /\ Len(relevantChunks) = 0
                    /\ Len(thresholdsLeft) = 1
                    /\ \E i \in DOMAIN ThresholdsDue : ThresholdsDue[i] = 0
                    /\ thresholdsLeft[1] = ThresholdsDue[Len(ThresholdsDue)]
      ]_vars

\* C25 witness: live mode, threshold 0.7: the searches at 0.7 and at 0.3 gave
\* nothing and the search at 0.0 has given a chunk
C25_Witness ==
    /\ qpc = "searching"
    /\ ~mockMode
    /\ qArgs.similarityThreshold = 7
    /\ thresholdsLeft = <<0>>
    /\ Len(relevantChunks) > 0

-----------------------------------------------------------------------------
(* Properties of the upload handler *)

\* the position of the batch loop: the file, then the chunk
LaterPosition ==
    \/ fileIdx' > fileIdx
    \/ fileIdx' = fileIdx /\ chunkIdx' >= chunkIdx

\* C22: a batch goes through its files and their chunks one after the other.
\* The one embedding call in flight is that of the chunk the loop is at; the
\* store grows only when that call returns, by that chunk with the vector
\* returned, put at the end; the next call is issued after that, for the next
\* chunk of the file or, after the parsing, for the first chunk of a file; and
\* the loop never goes back, so the chunks of the batch are in the store in
\* file order, then chunk order.
C22_Sequential ==
    [][(upc # "idle") =>
          /\ (documents' # documents) =>
                /\ upc = "embedding"
                /\ Len(documents') = Len(documents) + 1
                /\ SubSeq(documents', 1, Len(documents)) = documents
                /\ documents'[Len(documents')].id = <<uReq.files[fileIdx].name, chunkIdx>>
                /\ documents'[Len(documents')].embedding \in UploadEmbeddingResults
          /\ (upc' # "idle") => LaterPosition
          /\ (upc' = "embedding") =>
                \/ upc = "parsing" /\ fileIdx' = fileIdx /\ chunkIdx' = 0
                \/ upc = "embedding" /\ fileIdx' = fileIdx /\ chunkIdx' = chunkIdx + 1
      ]_vars

\* C22 witness: the embedding of the first chunk of the second file is awaited
\* with the two chunks of the first file in the store, in their order
C22_Witness ==
    /\ upc = "embedding"
    /\ fileIdx = 2 /\ chunkIdx = 0
    /\ stats.successfulChunks = 2
    /\ Len(documents) = 2
    /\ documents[1].id = <<uReq.files[1].name, 0>>
    /\ documents[2].id = <<uReq.files[1].name, 1>>

\* C10: a failed embedding of a chunk adds one to failedChunks and one message
\* to the error list and inserts nothing; the handler goes on with the next
\* chunk of the file, else with the next file, else it responds; and a batch
\* with failed chunks ends with a success response after every chunk of every
\* parsed file was tried.
C10_ChunkFailureIsolated ==
    [][/\ (upc = "embedding" /\ stats'.failedChunks = stats.failedChunks + 1) =>
            /\ Len(errors') = Len(errors) + 1
            /\ errors'[Len(errors')] = <<"embed", fileIdx, chunkIdx>>
            /\ SubSeq(errors', 1, Len(errors)) = errors
            /\ documents' = documents
            /\ stats'.successfulChunks = stats.successfulChunks
            /\ IF chunkIdx + 1 < FileChunks(uReq.files[fileIdx])
               THEN upc' = "embedding" /\ fileIdx' = fileIdx /\ chunkIdx' = chunkIdx + 1
               ELSE IF fileIdx < Len(uReq.files)
               THEN upc' = "parsing" /\ fileIdx' = fileIdx + 1
               ELSE upc' = "done"
       /\ (upc \in {"parsing", "embedding"} /\ upc' = "done") =>
            /\ uResponse'.status = 200 /\ uResponse'.success
            /\ uResponse'.stats.failedChunks = stats'.failedChunks
            /\ stats'.successfulChunks + stats'.failedChunks = stats'.totalChunks
            /\ fileIdx = Len(uReq.files)
    ]_vars

\* C10 witness: the first chunk of the first file failed, the chunk after it
\* and the chunk of the next file were inserted, and the response is a success
C10_Witness ==
    /\ upc = "done"
    /\ uResponse.success
    /\ Len(uReq.files) = 2
    /\ errors = << <<"embed", 1, 0>> >>
    /\ stats = [filesProcessed |-> 2, totalChunks |-> 3, successfulChunks |-> 2,
                failedChunks |-> 1]
    /\ Len(documents) = 2
    /\ documents[1].id = <<uReq.files[1].name, 1>>
    /\ documents[2].id = <<uReq.files[2].name, 0>>

\* the characters of a text that are not blank
NonBlank(text) == Cardinality({i \in DOMAIN text : text[i] \notin WhiteSpace})

\* what the handler does in one step with a file it drops: no chunk is counted,
\* no embedding is asked for, one message is added, the store is left as it
\* is, and the handler is at the next file or responds with a success
FileDropped ==
    /\ stats'.totalChunks = stats.totalChunks
    /\ upc' # "embedding"
    /\ Len(errors') = Len(errors) + 1
    /\ SubSeq(errors', 1, Len(errors)) = errors
    /\ errors'[Len(errors')][2] = fileIdx
    /\ documents' = documents
    /\ IF fileIdx < Len(uReq.files)
       THEN upc' = "parsing" /\ fileIdx' = fileIdx + 1
       ELSE upc' = "done" /\ uResponse'.status = 200 /\ uResponse'.success

\* C11 as stated: a file whose extraction throws, or yields fewer than 20
\* non-blank characters, is dropped with one message and the batch goes on.
C11_Original ==
    [][(/\ upc = "parsing"
        /\ \/ uReq.files[fileIdx].parse = "throws"
           \/ NonBlank(uReq.files[fileIdx].text) < MinUploadTextChars)
       => FileDropped]_vars

\* C11 amended: a file whose extraction throws, or yields a text of fewer than
\* 20 characters once trimmed, is dropped with one message and the batch goes
\* on with the next file.
C11_UnusableFileDropped ==
    [][(/\ upc = "parsing"
        /\ \/ uReq.files[fileIdx].parse = "throws"
           \/ Len(Trim(uReq.files[fileIdx].text)) < MinUploadTextChars)
       => FileDropped]_vars

\* C11 witness: of two files the first gave 19 letters, which left one
\* message and nothing in the store, and the second was ingested in two chunks
C11_Witness ==
    /\ upc = "done"
    /\ uResponse.success
    /\ Len(uReq.files) = 2
    /\ uReq.files[1].parse = "text" /\ uReq.files[1].text = Text_19
    /\ errors = << <<"no text", 1>> >>
    /\ stats.totalChunks = 2
    /\ stats.successfulChunks = 2
    /\ Len(documents) = 2

\* C17: no two chunks of the store have the same id, after any sequence of
\* uploads (of one file name twice, or of two files of one name in a batch,
\* without clearing), clear and clearNamespace calls.
C17_UniqueIds ==
    \A i, j \in DOMAIN documents : i # j => documents[i].id # documents[j].id

\* C18: all chunks of the store have embeddings of one length, in live mode,
\* in mock mode and in live mode with the fallback to mock, for every
\* embedding model.
C18_OneEmbeddingLength ==
    \A i, j \in DOMAIN documents :
        documents[i].embedding.length = documents[j].embedding.length

\* the handler is in its loop over the files, or has just left it
InBatch == upc \in {"parsing", "embedding"} \/ (upc = "done" /\ uResponse.success)

\* C29: at every point of the loop successfulChunks + failedChunks is at most
\* totalChunks, and they are equal in the response; filesProcessed is at most
\* the number of files; the error list has at least failedChunks entries; the
\* counts start at 0 on the store as the optional clear left it, and from
\* then on the store grows by exactly what successfulChunks grows by.
C29_Accounting ==
    /\ [](InBatch =>
             /\ stats.successfulChunks + stats.failedChunks <= stats.totalChunks
             /\ stats.filesProcessed <= Len(uReq.files)
             /\ Len(errors) >= stats.failedChunks)
    /\ []((upc = "done" /\ uResponse.success) =>
             /\ uResponse.stats = stats
             /\ uResponse.errors = errors
             /\ stats.successfulChunks + stats.failedChunks = stats.totalChunks)
    /\ [][ /\ (upc = "idle" /\ upc' = "parsing") =>
                 /\ stats'.successfulChunks = 0
                 /\ documents' =
                        IF ~uReq'.clearNamespace THEN documents
                        ELSE IF uReq'.namespace = <<>> THEN <<>>
                        ELSE SelectSeq(documents,
                                 LAMBDA d : d.metadata.namespace # uReq'.namespace)
           /\ (upc \in {"parsing", "embedding"}) =>
                 Len(documents') - Len(documents) =
                     stats'.successfulChunks - stats.successfulChunks
       ]_vars

\* C29 witness: the response of a batch of two files on a store that had a
\* chunk before: a chunk of each failed, a chunk was inserted
C29_Witness ==
    /\ upc = "done"
    /\ uResponse.success
    /\ Len(uReq.files) = 2
    /\ stats.failedChunks >= 1
    /\ stats.successfulChunks >= 1
    /\ Len(documents) > stats.successfulChunks

-----------------------------------------------------------------------------
(* Properties of chunkText *)

\* the run has pushed more chunks than the text has cursor positions: it has
\* been at one cursor twice and, an iteration being a function of the cursor,
\* repeats itself for ever
Diverged == cpc = "loop" /\ Len(cChunks) > Len(cArgs.text)

\* C12: chunkText(text, size, overlap) terminates for every text, every
\* size >= 1 and every overlap >= 0, overlap >= size included: no run comes
\* back to a cursor it has been at.
C12_Terminates == ~Diverged

\* what C13 says of a returned list
ChunksOk(text, chunkSize, result, wins) ==
    /\ (result # <<>>) <=> (Trim(text) # <<>>)
    /\ \A i \in DOMAIN result :
          /\ result[i] # <<>>
          /\ Trim(result[i]) = result[i]
          /\ Len(result[i]) <= chunkSize
          /\ result[i] = Trim(Slice(text, wins[i][1], wins[i][2]))
    /\ \A i \in DOMAIN wins : i > 1 => wins[i - 1][1] <= wins[i][1]
    /\ \A p \in 0..(Len(text) - 1) :
          text[p + 1] \notin WhiteSpace =>
             \E i \in DOMAIN wins : wins[i][1] <= p /\ p < wins[i][2]

\* C13: for 0 <= overlap < size, chunkText returns, and the list it returns is
\* non-empty exactly when trim(text) is, holds only trimmed non-empty chunks of
\* at most size characters, in text order, whose windows cover every
\* non-blank position of the text.
C13_ChunkContract ==
    cArgs # <<>> /\ cArgs.overlap < cArgs.chunkSize =>
        /\ ~Diverged
        /\ cpc = "returned" => ChunksOk(cArgs.text, cArgs.chunkSize, cChunks, windows)

\* C28: for 0 <= overlap < size every iteration that goes on leaves the
\* cursor strictly ahead of where it was, also when the chunk is cut at a
\* break point past half of the window; the loop makes at most length(text)
\* iterations, and the next window starts exactly overlap characters before
\* the end of the one just pushed.
C28_CursorAdvances ==
    [][ (cpc = "loop" /\ cChunks' # cChunks /\ cArgs.overlap < cArgs.chunkSize) =>
           /\ Len(cChunks') <= Len(cArgs.text)
           /\ cpc' = "loop" =>
                  /\ start' > start
                  /\ start' = windows'[Len(windows')][2] - cArgs.overlap
      ]_vars

-----------------------------------------------------------------------------
(* Properties of the store *)

\* t is s without its leading and trailing white space
IsTrimOf(t, s) ==
    \E i, j \in 0..Len(s) :
        /\ i + j <= Len(s)
        /\ \A m \in 1..i : s[m] \in WhiteSpace
        /\ \A m \in (Len(s) - j + 1)..Len(s) : s[m] \in WhiteSpace
        /\ t = SubSeq(s, i + 1, Len(s) - j)
        /\ t # <<>> => t[1] \notin WhiteSpace /\ t[Len(t)] \notin WhiteSpace
        /\ t = <<>> => i + j = Len(s) \/ Len(s) = 0

\* after is before without the elements at the indices in gone, in order
IsWithout(after, before, gone) ==
    LET kept == DOMAIN before \ gone
        Nth(j) == CHOOSE i \in kept : Cardinality({m \in kept : m <= i}) = j
    IN  /\ Len(after) = Len(before) - Cardinality(gone)
        /\ \A j \in 1..Len(after) : after[j] = before[Nth(j)]

\* C4: clearNamespace(ns) removes exactly the chunks whose namespace is
\* trim(ns); every other chunk, with another namespace or with none, stays, in
\* its place relative to the others, also when ns is empty or white space; the
\* count goes down by the number of chunks removed; a second clearNamespace(ns)
\* changes nothing.
C4_ClearNamespaceExact ==
    [][op'.name = "clearNamespace" =>
        LET ns   == op'.args[1]
            gone == {i \in DOMAIN documents :
                        documents[i].metadata.namespace # Undefined
                        /\ IsTrimOf(documents[i].metadata.namespace, ns)}
        IN  /\ IsWithout(documents', documents, gone)
            /\ \A i \in DOMAIN documents :
                  documents[i].metadata.namespace = Undefined => i \notin gone
            /\ (op.name = "clearNamespace" /\ op.args = op'.args) => documents' = documents
    ]_vars

\* C4 witness: clearNamespace(" a ") has just run on a store that held a chunk
\* of namespace "a"; a chunk of another namespace is still there
C4_Witness ==
    /\ op.name = "clearNamespace"
    /\ op.args[1] = <<" ", "a", " ">>
    /\ Len(documents) = 1
    /\ documents[1].metadata.namespace # Ns_a

\* the chunks of result are chunks of docs at distinct places given by f
Selects(f, result, docs) ==
    /\ \A i \in DOMAIN result : result[i] = docs[f[i]]
    /\ \A i, j \in DOMAIN result : i # j => f[i] # f[j]

SearchResultOk(docs, result, qe, k, threshold, namespace, scoped) ==
    LET Sim(d) == VectorStore_cosineSimilarity(qe, d.embedding)
    IN  /\ Len(result) <= k
        /\ scoped => \A i \in DOMAIN result : result[i].metadata.namespace = namespace
        /\ \A i \in DOMAIN result : SimGE(Sim(result[i]), threshold)
        /\ \A i, j \in DOMAIN result : i < j => ~SimLT(Sim(result[i]), Sim(result[j]))
        /\ \E f \in [DOMAIN result -> DOMAIN docs] :
              /\ Selects(f, result, docs)
              /\ \A m \in DOMAIN docs \ {f[i] : i \in DOMAIN result} :
                    (scoped => docs[m].metadata.namespace = namespace)
                    => \A i \in DOMAIN result : ~SimLT(Sim(result[i]), Sim(docs[m]))

\* C5 as stated: similaritySearch returns at most k chunks of the store, all of
\* the namespace when one is given (any string), each of similarity >=
\* threshold, in non-increasing order of similarity, no omitted candidate being
\* strictly more similar than a returned one; the store is unchanged.
C5_Original ==
    [][op'.name = "similaritySearch" =>
        /\ documents' = documents
        /\ SearchResultOk(documents, op'.result, op'.args[1], op'.args[2], op'.args[3],
                          op'.args[4], op'.args[4] # Undefined)
    ]_vars

\* C5 amended: the same, the namespace being given when it is a non-empty
\* string; with the empty string the search runs over the whole store.
C5_SearchResult ==
    [][op'.name = "similaritySearch" =>
        /\ documents' = documents
        /\ SearchResultOk(documents, op'.result, op'.args[1], op'.args[2], op'.args[3],
                          op'.args[4], Truthy(op'.args[4]))
        /\ op'.args[4] = <<>> =>
              op'.result = VectorStore_similaritySearch(documents, op'.args[1], op'.args[2],
                                                        op'.args[3], Undefined)
    ]_vars

\* C5 witness: a search in namespace "a" with k = 1 has returned one chunk and
\* left out another chunk of the namespace
C5_Witness ==
    /\ op.name = "similaritySearch"
    /\ op.args[2] = 1
    /\ op.args[4] = Ns_a
    /\ Len(op.result) = 1
    /\ Len(documents) = 2
    /\ \A i \in DOMAIN documents : documents[i].metadata.namespace = Ns_a
    /\ documents[1] # documents[2]

-----------------------------------------------------------------------------
(* Properties of the retrieval policy and the chat route *)

\* the step in which the embedding arrives and the retrieval runs
Retrieved == qpc = "embedding" /\ qpc' # "embedding" /\ queryEmbedding' # <<>>

IsUploadedChunk(d) == d.metadata.source = "uploaded"

\* the pool the policy applies to: the uploaded chunks when there are any,
\* otherwise the chunks of the namespace, or all chunks without a namespace
ApplicablePool(docs, namespace) ==
    LET InNs(d) == d.metadata.namespace = namespace
    IN  IF SelectSeq(docs, IsUploadedChunk) # <<>> THEN SelectSeq(docs, IsUploadedChunk)
        ELSE IF namespace = Undefined THEN docs
        ELSE SelectSeq(docs, InNs)

\* C1: with maxResults >= 1 and a non-empty applicable pool the query retrieves
\* at least one chunk; when no chunk is uploaded and every chunk of the pool is
\* less similar than the lowest threshold 0.0, it retrieves min(maxResults,
\* pool size) chunks, the first of the pool.
C1_NeverEmpty ==
    [][Retrieved =>
        LET pool == ApplicablePool(documents, qArgs.namespace)
            below == /\ SelectSeq(documents, IsUploadedChunk) = <<>>
                     /\ \A i \in DOMAIN pool :
                           ~SimGE(VectorStore_cosineSimilarity(queryEmbedding',
                                                               pool[i].embedding), 0)
        IN  (qArgs.maxResults >= 1 /\ pool # <<>>) =>
               /\ Len(relevantChunks') >= 1
               /\ below => relevantChunks' = SubSeq(pool, 1, Min(qArgs.maxResults, Len(pool)))
    ]_vars

\* C1 witness: no chunk is uploaded, both chunks of the store are less similar
\* to the question than 0.0, and the query has retrieved one of them
C1_Witness ==
    /\ qpc = "generating"
    /\ Len(documents) = 2
    /\ \A i \in DOMAIN documents :
          /\ ~IsUploadedChunk(documents[i])
          /\ ~SimGE(VectorStore_cosineSimilarity(queryEmbedding, documents[i].embedding), 0)
    /\ qArgs.maxResults = 1
    /\ Len(relevantChunks) = 1

C3_TenantIsolation ==
    \A i \in DOMAIN relevantChunks :
        Truthy(qArgs.namespace) => relevantChunks[i].metadata.namespace = qArgs.namespace

\* a message the route accepts: a non-empty string
WellFormed(message) == message.type = "string" /\ message.str # <<>>

\* a step of POST /api/chat on a body that is a JSON object
ChatStep == qpc = "idle" /\ qpc' # "idle" /\ qArgs'.via = "chat" /\ qArgs'.body.json = "object"

\* C6: a well-formed question asked through the chat route while the store is
\* empty is answered 200 with the "knowledge base is empty" message, no
\* sources, retrievedChunks 0 and no embedding or generation call; and a query
\* that retrieves no chunk returns its canned answer with no sources and makes
\* no generation call.
C6_EmptyIsNotAnError ==
    [][/\ (ChatStep /\ WellFormed(qArgs'.body.message) /\ documents = <<>>) =>
            /\ qpc' = "done"
            /\ chatResponse' = [status |-> 200, answer |-> "kb_empty", sources |-> <<>>,
                                retrievedChunks |-> 0]
            /\ embedCalls' = 0 /\ genCalls' = 0
       /\ (Retrieved /\ relevantChunks' = <<>>) =>
            /\ qpc' = "done"
            /\ chatResponse' = [status |-> 200, answer |-> "not_found", sources |-> <<>>,
                                retrievedChunks |-> 0]
            /\ genCalls' = 0
       /\ genCalls' > genCalls => relevantChunks' # <<>>
    ]_vars

\* C6 witness: the chat route has answered a well-formed question on an empty
\* store
C6_Witness ==
    /\ qpc = "done"
    /\ qArgs.via = "chat"
    /\ WellFormed(qArgs.body.message)
    /\ documents = <<>>
    /\ chatResponse.answer = "kb_empty"
    /\ embedCalls = 0

====
